---------------------------- MODULE Spec2Model ----------------------------
(***************************************************************************)
(* A model of the Handcrank engine as used by pong-demo                    *)
(* (include/Handcrank/Handcrank.hpp): the Game loop, the forest of         *)
(* RenderObjects with its traversals (update, fixed update, render,        *)
(* destroy sweep) and the input tables.                                    *)
(*                                                                         *)
(* Nodes are numbered in construction order; 0 stands for the Game as the  *)
(* owner of the top-level children and for nullptr as a parent.  The       *)
(* virtual hooks (Start, Update, OnMouseOver, ...) are user code: every    *)
(* invocation may make at most one call of the public API, chosen          *)
(* nondeterministically.  Time is counted in units of 10 ms.               *)
(***************************************************************************)
EXTENDS Integers, Sequences, FiniteSets, TLC

---------------------------------------------------------------------------
(* Bounds of the model *)

MaxNodes == 3          \* RenderObjects constructed in a run, at most
LifeNodes == 2         \* Spec: nodes, Loop iterations, API calls by hooks
MaxFrames == 2
MaxOps == 1
DestroyOps == 2        \* SpecDestroy: API calls by hooks
InputNodes == 2        \* SpecKeys, SpecHover, SpecClick: nodes
KeyFrames == 3         \* SpecKeys: Loop iterations, raw events
MaxKeyEvents == 2
HoverFrames == 4       \* SpecHover: Loop iterations, raw events
MaxHoverEvents == 3
ClickFrames == 2       \* SpecClick: Loop iterations, raw events
MaxClickEvents == 3
MaxAddCalls == 3       \* SpecAdd: calls of AddChildObject
TreeNodes == 3         \* SpecRect: nodes of the tree
AnchorNodes == 1       \* SpecAnchor: nodes
TimeNodes == 2         \* SpecTime: nodes, Loop iterations, raw events
TimeFrames == 4
MaxTimeEvents == 1
HostNodes == 2         \* SpecHost: nodes, Loop iterations, API calls, raw events
HostFrames == 2
HostOps == 1
MaxHostEvents == 1
MaxAnimations == 2     \* SpecAnimator: animations added, calls made
MaxAnimatorCalls == 5

(* Program constants *)

DEFAULT_WINDOW_WIDTH == 800
DEFAULT_WINDOW_HEIGHT == 600
DEFAULT_RECT_WIDTH == 100
DEFAULT_RECT_HEIGHT == 100
fixedFrameTime == 2

TOP == 1
LEFT == 2
BOTTOM == 4
RIGHT == 8
VCENTER == 22
HCENTER == 50

SDL_BUTTON_LEFT == 1

Nodes == 1..MaxNodes
TheGame == 0
nullptr == 0
Owners == {TheGame} \cup Nodes

Keys == {"w"}
Buttons == {SDL_BUTTON_LEFT}

(* The pointer positions the window system reports: one inside and one     *)
(* outside the default rectangle of a node.                                *)
PointerPositions == {[x |-> 50, y |-> 50], [x |-> 150, y |-> 50]}

(* Frame durations measured by Loop, in units of 10 ms. *)
SlowFrames == {3}

(* Frame durations below and above the fixed step. *)
FrameTimes == {1, 3}

VARIABLES
    count,                \* RenderObject::count
    made,                 \* number of RenderObjects constructed: they are named 1..made
    obj,                  \* the fields of every RenderObject
    children,             \* children[0]: Game::children; children[n]: n's children
    quit,                 \* Game::quit
    focused,              \* Game::focused
    keyState, keyPressedState, keyReleasedState,
    mousePosition,
    mouseState, mousePressedState, mouseReleasedState,
    deltaTime, fixedUpdateDeltaTime,
    pc,                   \* where main / Run / Loop stands
    stack,                \* the call stack of the traversal in progress
    env,                  \* what the environment may still do (bounds)
    frame,                \* number of Loop iterations begun
    ops,                  \* number of API calls made by hooks
    nevents,              \* number of raw events delivered
    log,                  \* history: phases and hook calls of the current iteration
    hist,                 \* history across iterations
    cancelled,            \* the host's main loop has been cancelled (emscripten)
    animator,             \* the fields of an Animator and of its Animations
    out,                  \* the last call of a function with a result, and the result
    sdl,                  \* the SDL library as the Game uses it: subsystem, window, renderer
    txt,                  \* the fields of a TextRenderObject
    pong                  \* the Pong program: window, input and the objects' fields

inputVars == <<keyState, keyPressedState, keyReleasedState, mousePosition,
               mouseState, mousePressedState, mouseReleasedState, focused>>
forestVars == <<count, made, obj, children>>
extVars == <<sdl, txt, pong>>
auxVars == <<cancelled, animator, out, extVars>>
timeVars == <<deltaTime, fixedUpdateDeltaTime>>
vars == <<count, made, obj, children, quit, focused, keyState, keyPressedState,
          keyReleasedState, mousePosition, mouseState, mousePressedState,
          mouseReleasedState, deltaTime, fixedUpdateDeltaTime, pc, stack,
          env, frame, ops, nevents, log, hist, cancelled, animator, out, sdl, txt, pong>>

---------------------------------------------------------------------------
(* Sequences *)

Range(s) == {s[i] : i \in 1..Len(s)}

RemoveAt(s, i) == [j \in 1..(Len(s) - 1) |-> IF j < i THEN s[j] ELSE s[j + 1]]

Last(s) == s[Len(s)]

Front(s) == SubSeq(s, 1, Len(s) - 1)

Positions(s, e) == {i \in 1..Len(s) : s[i] = e}

Min(a, b) == IF a < b THEN a ELSE b
Max(a, b) == IF a > b THEN a ELSE b

---------------------------------------------------------------------------
(* RenderObject: construction and fields *)

\* RenderObject::RenderObject(): the default rectangle, every flag at its
\* in-class initialiser.
NewRenderObject ==
    [index |-> 0,
     rect |-> [x |-> 0, y |-> 0, w |-> DEFAULT_RECT_WIDTH, h |-> DEFAULT_RECT_HEIGHT],
     anchor |-> TOP + LEFT,
     scale |-> 1,
     hasStarted |-> FALSE,
     isEnabled |-> TRUE,
     isMarkedForDestroy |-> FALSE,
     isInputHovered |-> FALSE,
     isInputActive |-> FALSE,
     game |-> FALSE,
     parent |-> nullptr,
     z |-> 0]

IsEnabled(o, n) == o[n].isEnabled

HasBeenMarkedForDestroy(o, n) == o[n].isMarkedForDestroy

\* Bitwise and of two 8-bit values (operator& on RectAnchor).
RECURSIVE BitAnd(_, _)
BitAnd(a, b) ==
    IF a = 0 \/ b = 0 THEN 0
    ELSE (IF a % 2 = 1 /\ b % 2 = 1 THEN 1 ELSE 0) + 2 * BitAnd(a \div 2, b \div 2)

HasAnchor(a, flag) == BitAnd(a, flag) = flag

\* RenderObject::GetTransformedRect
GetTransformedRect(o, n) ==
    LET r == o[n].rect
        w == r.w * o[n].scale
        h == r.h * o[n].scale
        x == IF HasAnchor(o[n].anchor, HCENTER) THEN r.x - (w \div 2)
             ELSE IF HasAnchor(o[n].anchor, RIGHT) THEN r.x - w
             ELSE r.x
        y == IF HasAnchor(o[n].anchor, VCENTER) THEN r.y - (h \div 2)
             ELSE IF HasAnchor(o[n].anchor, BOTTOM) THEN r.y - h
             ELSE r.y
        p == o[n].parent
    IN  IF p # nullptr
        THEN [x |-> x + o[p].rect.x, y |-> y + o[p].rect.y,
              w |-> w * o[p].scale, h |-> h * o[p].scale]
        ELSE [x |-> x, y |-> y, w |-> w, h |-> h]

\* SDL_PointInFRect
SDL_PointInFRect(p, r) ==
    /\ p.x >= r.x
    /\ p.x < r.x + r.w
    /\ p.y >= r.y
    /\ p.y < r.y + r.h

\* SDL_HasIntersectionF
SDL_HasIntersectionF(A, B) ==
    /\ A.w > 0 /\ A.h > 0 /\ B.w > 0 /\ B.h > 0
    /\ Min(A.x + A.w, B.x + B.w) > Max(A.x, B.x)
    /\ Min(A.y + A.h, B.y + B.h) > Max(A.y, B.y)

\* Game::GetViewport: viewportf after SetScreenSize(width, height)
GetViewport == [x |-> 0, y |-> 0, w |-> DEFAULT_WINDOW_WIDTH, h |-> DEFAULT_WINDOW_HEIGHT]

\* RenderObject::CalculateBoundingBox and RenderObject::CanRender, which call
\* each other down the tree.
RECURSIVE CalculateBoundingBox(_, _, _)
RECURSIVE BoundingBoxFold(_, _, _, _, _)
CanRender(o, ch, n) ==
    SDL_HasIntersectionF(CalculateBoundingBox(o, ch, n), GetViewport)

BoundingBoxFold(o, ch, kids, i, box) ==
    IF i > Len(kids) THEN box
    ELSE LET c == kids[i] IN
         IF IsEnabled(o, c) /\ CanRender(o, ch, c)
         THEN LET cb == CalculateBoundingBox(o, ch, c)
                  nx == Min(box.x, cb.x)
                  ny == Min(box.y, cb.y)
              IN  BoundingBoxFold(o, ch, kids, i + 1,
                     [x |-> nx, y |-> ny,
                      w |-> Max(box.x + box.w, cb.x + cb.w) - nx,
                      h |-> Max(box.y + box.h, cb.y + cb.h) - ny])
         ELSE BoundingBoxFold(o, ch, kids, i + 1, box)

CalculateBoundingBox(o, ch, n) ==
    BoundingBoxFold(o, ch, ch[n], 1, GetTransformedRect(o, n))

---------------------------------------------------------------------------
(* The forest *)

\* The nodes below owner p (p itself excluded), following the owned
\* children sequences.
RECURSIVE Descendants(_, _)
Descendants(ch, p) ==
    UNION {{c} \cup Descendants(ch, c) : c \in Range(ch[p])}

Subtree(ch, n) == {n} \cup Descendants(ch, n)

\* The nodes reachable from Game::children.
Forest(ch) == Descendants(ch, TheGame)

---------------------------------------------------------------------------
(* The public API, as functions of the world W = [obj, children, count, quit] *)

World ==
    [obj |-> obj, children |-> children, count |-> count, made |-> made,
     quit |-> quit]

\* make_shared<RenderObject>(): index = ++RenderObject::count
Construct(W) ==
    [W EXCEPT !.count = @ + 1,
              !.made = @ + 1,
              !.obj[W.made + 1] = [NewRenderObject EXCEPT !.index = W.count + 1]]

\* Game::AddChildObject
GameAddChildObject(W, c) ==
    [W EXCEPT !.obj[c].game = TRUE,
              !.children[TheGame] = Append(@, c)]

\* RenderObject::AddChildObject
AddChildObject(W, p, c) ==
    [W EXCEPT !.obj[c].parent = p,
              !.obj[c].game = W.obj[p].game,
              !.children[p] = Append(@, c)]

\* RenderObject::Enable
Enable(W, n) == [W EXCEPT !.obj[n].isEnabled = TRUE]

\* RenderObject::Disable
Disable(W, n) == [W EXCEPT !.obj[n].isEnabled = FALSE]

\* Game::Quit
Quit(W) == [W EXCEPT !.quit = TRUE]

\* Mutants of Destroy: marking the node alone (lazy propagation), and
\* erasing the node from its owner at once.
DestroyLazy(W, n) == [W EXCEPT !.obj[n].isMarkedForDestroy = TRUE]

DestroyEager(W, n) ==
    [obj |-> [m \in Nodes |->
                IF m \in Subtree(W.children, n)
                THEN [W.obj[m] EXCEPT !.isMarkedForDestroy = TRUE]
                ELSE W.obj[m]],
     children |-> [p \in Owners |-> SelectSeq(W.children[p], LAMBDA c : c # n)],
     count |-> W.count,
     made |-> W.made,
     quit |-> W.quit]

\* RenderObject::Destroy: sets the flag, then calls Destroy on every child.
RECURSIVE DestroyEach(_, _, _)
Destroy(W, n) ==
    DestroyEach([W EXCEPT !.obj[n].isMarkedForDestroy = TRUE], W.children[n], 1)

DestroyEach(W, kids, i) ==
    IF i > Len(kids) THEN W
    ELSE DestroyEach(Destroy(W, kids[i]), kids, i + 1)

---------------------------------------------------------------------------
(* Hooks: what user code may do when the engine calls it *)

NoEffect == [op |-> "None", n |-> 0]

\* An owner whose children vector a traversal on the stack is iterating:
\* appending to it would invalidate the iterator.
Iterating(stk, p) ==
    \E k \in 1..Len(stk) : stk[k].self = p /\ stk[k].pc \in {"loop", "after"}

\* The API calls a hook may make in world W: only calls that change
\* something, at most env.maxOps of them in a run.
Effects(W, stk) ==
    {NoEffect} \cup
    IF ops >= env.maxOps THEN {}
    ELSE LET F == Forest(W.children) IN
         {[op |-> "Destroy", n |-> n] : n \in
             {m \in F : \E d \in Subtree(W.children, m) :
                           ~W.obj[d].isMarkedForDestroy}}
         \cup {[op |-> "Enable", n |-> n] : n \in {m \in F : ~W.obj[m].isEnabled}}
         \cup {[op |-> "Disable", n |-> n] : n \in {m \in F : W.obj[m].isEnabled}}
         \cup {[op |-> "AddChildObject", n |-> p] : p \in
                 {q \in F \cup {TheGame} :
                     W.made < env.maxNodes /\ ~Iterating(stk, q)}}
         \cup {[op |-> "Quit", n |-> 0] : x \in {q \in {0} : ~W.quit}}

ApplyEffect(W, e) ==
    CASE e.op = "None" -> W
      [] e.op = "Destroy" -> Destroy(W, e.n)
      [] e.op = "Enable" -> Enable(W, e.n)
      [] e.op = "Disable" -> Disable(W, e.n)
      [] e.op = "AddChildObject" ->
            IF e.n = TheGame
            THEN GameAddChildObject(Construct(W), W.made + 1)
            ELSE AddChildObject(Construct(W), e.n, W.made + 1)
      [] e.op = "Quit" -> Quit(W)

OpCost(e) == IF e.op = "None" THEN 0 ELSE 1

---------------------------------------------------------------------------
(* History *)

Entry(ev, n, arg) == [ev |-> ev, n |-> n, arg |-> arg]

\* The log after hook ev of node n was called with argument arg and made
\* the API call e.
LogHook(lg, ev, n, arg, e) ==
    LET l1 == Append(lg, Entry(ev, n, arg))
    IN  IF e.op = "None" THEN l1 ELSE Append(l1, Entry(e.op, e.n, 0))

CountOf(lg, ev, n) == Len(SelectSeq(lg, LAMBDA e : e.ev = ev /\ e.n = n))

HasEntry(lg, ev, n) == \E i \in 1..Len(lg) : lg[i].ev = ev /\ lg[i].n = n

\* The phases begun in the iteration, in order.
Phases(lg) ==
    LET marks == SelectSeq(lg, LAMBDA e : e.ev = "phase")
    IN  [i \in 1..Len(marks) |-> marks[i].n]

\* History of a Destroy() call e made in world W (before the call):
\* the nodes it covers, and for each the descendants it had.
HistEffect(h, e, W, inSweep) ==
    IF e.op # "Destroy" THEN h
    ELSE LET S == Subtree(W.children, e.n)
             h1 == [h EXCEPT !.sub = [m \in Nodes |->
                       IF m \in S THEN @[m] \cup Descendants(W.children, m)
                       ELSE @[m]]]
         IN  IF inSweep THEN [h1 EXCEPT !.late = @ \cup S]
             ELSE [h1 EXCEPT !.ripe = @ \cup S]

InitHist ==
    [startCount |-> [n \in Nodes |-> 0],
     updatedBefore |-> {},
     destroyOrder |-> <<>>,
     ripe |-> {},
     late |-> {},
     sub |-> [n \in Nodes |-> {}],
     removed |-> {},
     prevInside |-> [n \in Nodes |-> "none"],
     wasActive |-> [n \in Nodes |-> FALSE],
     hoverSeq |-> [n \in Nodes |-> <<>>],
     keyHist |-> [k \in Keys |-> "none"],
     drained |-> <<>>]

---------------------------------------------------------------------------
(* Game: the input tables *)

\* Game::IsKeyDown, IsKeyPressed, IsKeyReleased, IsMouseButtonDown, ...:
\* the entry of the table, false when there is none.
IsKeyDown(k) == keyState[k]
IsKeyPressed(k) == keyPressedState[k]
IsKeyReleased(k) == keyReleasedState[k]
IsMouseButtonDown(b) == mouseState[b]
IsMouseButtonPressed(b) == mousePressedState[b]
IsMouseButtonReleased(b) == mouseReleasedState[b]
GetMousePosition == mousePosition

Event(type, key, button, x, y) ==
    [type |-> type, key |-> key, button |-> button, x |-> x, y |-> y]

KeyEvents ==
    {Event(t, k, 0, 0, 0) : t \in {"SDL_KEYDOWN", "SDL_KEYUP"}, k \in Keys}

MotionEvents ==
    {Event("SDL_MOUSEMOTION", "", 0, p.x, p.y) : p \in PointerPositions}

ButtonEvents ==
    {Event(t, "", b, 0, 0) : t \in {"SDL_MOUSEBUTTONDOWN", "SDL_MOUSEBUTTONUP"},
                             b \in Buttons}

\* The pointer, which is at (0, 0) at first, leaves the default rect.
LeaveEvents == {Event("SDL_MOUSEMOTION", "", 0, 150, 50)}

WindowEvents ==
    {Event(t, "", 0, 0, 0) : t \in {"SDL_QUIT", "FOCUS_GAINED", "FOCUS_LOST"}}

QuitEvents == {Event("SDL_QUIT", "", 0, 0, 0)}

\* All sequences over S of length at most k.
SeqsUpTo(S, k) == UNION {[1..m -> S] : m \in 0..k}

\* The tables HandleInput writes, as one record.
Tables ==
    [keyState |-> keyState, keyPressedState |-> keyPressedState,
     keyReleasedState |-> keyReleasedState, mousePosition |-> mousePosition,
     mouseState |-> mouseState, mousePressedState |-> mousePressedState,
     mouseReleasedState |-> mouseReleasedState, focused |-> focused,
     quit |-> quit]

\* Mutant of ClearEdges: the pressed edges of the last frame are kept.
ClearKeyEdges(T) ==
    [T EXCEPT !.keyPressedState = [k \in Keys |-> FALSE],
              !.keyReleasedState = [k \in Keys |-> FALSE]]

ClearEdgesKeepPressed(T) ==
    [T EXCEPT !.keyReleasedState = [k \in Keys |-> FALSE],
              !.mouseReleasedState = [b \in Buttons |-> FALSE]]

\* Game::HandleInput, the four clear() calls.
ClearEdges(T) ==
    [T EXCEPT !.keyPressedState = [k \in Keys |-> FALSE],
              !.keyReleasedState = [k \in Keys |-> FALSE],
              !.mousePressedState = [b \in Buttons |-> FALSE],
              !.mouseReleasedState = [b \in Buttons |-> FALSE]]

\* Game::HandleInput, the switch on event.type.
HandleEvent(T, ev) ==
    CASE ev.type = "SDL_QUIT" -> [T EXCEPT !.quit = TRUE]
      [] ev.type = "FOCUS_LOST" -> [T EXCEPT !.focused = FALSE]
      [] ev.type = "FOCUS_GAINED" -> [T EXCEPT !.focused = TRUE]
      [] ev.type = "SDL_KEYDOWN" ->
            [T EXCEPT !.keyPressedState[ev.key] = ~T.keyState[ev.key],
                      !.keyState[ev.key] = TRUE]
      [] ev.type = "SDL_KEYUP" ->
            [T EXCEPT !.keyState[ev.key] = FALSE,
                      !.keyReleasedState[ev.key] = TRUE]
      [] ev.type = "SDL_MOUSEMOTION" ->
            [T EXCEPT !.mousePosition = [x |-> ev.x, y |-> ev.y]]
      [] ev.type = "SDL_MOUSEBUTTONDOWN" ->
            [T EXCEPT !.mousePressedState[ev.button] = ~T.mouseState[ev.button],
                      !.mouseState[ev.button] = TRUE]
      [] ev.type = "SDL_MOUSEBUTTONUP" ->
            [T EXCEPT !.mouseState[ev.button] = FALSE,
                      !.mouseReleasedState[ev.button] = TRUE]
      [] OTHER -> T

\* Game::HandleInput, the while (SDL_PollEvent(&event) != 0) loop.
RECURSIVE PollEvents(_, _, _)
PollEvents(T, evs, i) ==
    IF i > Len(evs) THEN T
    ELSE PollEvents(HandleEvent(T, evs[i]), evs, i + 1)

NumOf(evs, type, key) ==
    Cardinality({i \in 1..Len(evs) : evs[i].type = type /\ evs[i].key = key})

\* History of the keys: "F" in the frame that drains exactly one KEY_DOWN
\* and no KEY_UP for a key that was up, "later" in the frames after it
\* until one drains a KEY_UP for the key.
KeyHist(h, evs) ==
    [k \in Keys |->
        IF ~keyState[k] /\ NumOf(evs, "SDL_KEYDOWN", k) = 1
                        /\ NumOf(evs, "SDL_KEYUP", k) = 0
        THEN "F"
        ELSE IF h[k] \in {"F", "later"} /\ NumOf(evs, "SDL_KEYUP", k) = 0
        THEN "later"
        ELSE "none"]

---------------------------------------------------------------------------
(* Game::Run and Game::Loop *)

\* The names of the phases, as the history records them.
PhaseNames == <<"HandleInput", "Update", "FixedUpdate", "Render", "DestroyChildObjects">>

PhaseIndex(name) == CHOOSE k \in 1..Len(PhaseNames) : PhaseNames[k] = name

Mark(lg, name) == Append(lg, Entry("phase", PhaseIndex(name), 0))

\* Mutant of LoopBody: the sweep before the render.
LoopBodySweepFirst ==
    <<"HandleInput", "Update", "FixedUpdate", "DestroyChildObjects", "Render">>

\* Game::Loop: the calls between frameStart and frameEnd, in order.
LoopBody == <<"HandleInput", "Update", "FixedUpdate", "Render", "DestroyChildObjects">>

\* Where Loop continues when the call of `phase` has returned.
After(phase) ==
    LET k == CHOOSE j \in 1..Len(LoopBody) : LoopBody[j] = phase
    IN  IF k = Len(LoopBody) THEN "LoopEnd" ELSE LoopBody[k + 1]

Frame(self, fpc, arg) == [self |-> self, pc |-> fpc, i |-> 1, arg |-> arg]

Top == Last(stack)

\* The step's result: the world, the stack and the histories.
Set(W, stk, lg, h, nops, npc, acc) ==
    /\ obj' = W.obj
    /\ children' = W.children
    /\ count' = W.count
    /\ made' = W.made
    /\ quit' = W.quit
    /\ stack' = stk
    /\ log' = lg
    /\ hist' = h
    /\ ops' = nops
    /\ pc' = npc
    /\ fixedUpdateDeltaTime' = acc
    /\ UNCHANGED <<inputVars, deltaTime, env, frame, nevents, auxVars>>

\* main(): a node is constructed and added to the Game or to a node of the
\* forest, before Run is called.
MainAddChildObject ==
    /\ pc = "main"
    /\ made < env.maxNodes
    /\ \E p \in {TheGame} \cup Forest(children) :
          Set(ApplyEffect(World, [op |-> "AddChildObject", n |-> p]),
              stack, log, hist, ops, pc, fixedUpdateDeltaTime)

\* main(): return game->Run()
Run ==
    /\ pc = "main"
    /\ pc' = "Run"
    /\ UNCHANGED <<forestVars, quit, inputVars, timeVars, stack, env, frame,
                   ops, nevents, log, hist,
                   auxVars>>

Inside(o, n) == SDL_PointInFRect(GetMousePosition, GetTransformedRect(o, n))

\* Game::Run: while (!GetQuit()) Loop();  an iteration begins.
Loop ==
    /\ pc = "Run"
    /\ ~quit
    /\ frame < env.maxFrames
    /\ frame' = frame + 1
    /\ pc' = LoopBody[1]
    /\ log' = <<>>
    /\ hist' = [hist EXCEPT
          !.updatedBefore = @ \cup {n \in Nodes : HasEntry(log, "Update", n)},
          !.ripe = @ \cup hist.late,
          !.late = {},
          !.prevInside = [n \in Nodes |->
              IF HasEntry(log, "Update", n)
              THEN (IF Inside(obj, n) THEN "in" ELSE "out")
              ELSE "none"]]
    /\ UNCHANGED <<forestVars, quit, inputVars, timeVars, stack, env, ops, nevents,
                   auxVars>>

\* Game::Loop called by the host (emscripten_set_main_loop_arg with
\* Game::StaticLoop): if (GetQuit()) emscripten_cancel_main_loop(); and the
\* iteration begins.
StaticLoop ==
    /\ pc = "Run"
    /\ ~cancelled
    /\ frame < env.maxFrames
    /\ cancelled' = quit
    /\ frame' = frame + 1
    /\ pc' = LoopBody[1]
    /\ log' = <<>>
    /\ hist' = [hist EXCEPT
          !.updatedBefore = @ \cup {n \in Nodes : HasEntry(log, "Update", n)},
          !.ripe = @ \cup hist.late,
          !.late = {},
          !.prevInside = [n \in Nodes |->
              IF HasEntry(log, "Update", n)
              THEN (IF Inside(obj, n) THEN "in" ELSE "out")
              ELSE "none"]]
    /\ UNCHANGED <<forestVars, quit, inputVars, timeVars, stack, env, ops, nevents,
                   animator, out, extVars>>

\* The host's main loop has been cancelled: Loop is not called again.
HostStops ==
    /\ pc = "Run"
    /\ cancelled
    /\ pc' = "cancelled"
    /\ UNCHANGED <<forestVars, quit, inputVars, timeVars, stack, env, frame,
                   ops, nevents, log, hist, auxVars>>

\* Game::Run: the loop ends, Run returns.
RunReturn ==
    /\ pc = "Run"
    /\ quit
    /\ pc' = "exit"
    /\ UNCHANGED <<forestVars, quit, inputVars, timeVars, stack, env, frame,
                   ops, nevents, log, hist,
                   auxVars>>

\* Game::HandleInput
HandleInput ==
    /\ pc = "HandleInput"
    /\ \E evs \in SeqsUpTo(env.alphabet, env.maxEvents - nevents) :
          LET T == PollEvents(ClearEdges(Tables), evs, 1) IN
          /\ keyState' = T.keyState
          /\ keyPressedState' = T.keyPressedState
          /\ keyReleasedState' = T.keyReleasedState
          /\ mousePosition' = T.mousePosition
          /\ mouseState' = T.mouseState
          /\ mousePressedState' = T.mousePressedState
          /\ mouseReleasedState' = T.mouseReleasedState
          /\ focused' = T.focused
          /\ quit' = T.quit
          /\ nevents' = nevents + Len(evs)
          /\ hist' = [hist EXCEPT
                !.keyHist = KeyHist(@, evs),
                !.wasActive = [n \in Nodes |-> obj[n].isInputActive],
                !.drained = evs]
    /\ log' = Mark(log, "HandleInput")
    /\ pc' = After("HandleInput")
    /\ UNCHANGED <<forestVars, timeVars, stack, env, frame, ops,
                   auxVars>>

\* Loop: deltaTime is measured at the end of the iteration.
LoopEnd ==
    /\ pc = "LoopEnd"
    /\ \E dt \in env.deltaTimes : deltaTime' = dt
    /\ pc' = "Run"
    /\ UNCHANGED <<forestVars, quit, inputVars, fixedUpdateDeltaTime, stack,
                   env, frame, ops, nevents, log, hist,
                   auxVars>>

---------------------------------------------------------------------------
(* The traversals *)

\* Mutant of VisitsChild: the enabled flag of the child is not tested.
VisitsChildAlways(o, c) == TRUE

\* if (child->IsEnabled()) in Game::Update, Game::FixedUpdate, Game::Render,
\* InternalUpdate, InternalFixedUpdate and Render.
VisitsChild(o, c) == IsEnabled(o, c)

\* One turn of   for (child : children) if (child->IsEnabled()) child->F(arg)
\* by the frame on top of the stack, or the return from the loop; the Game's
\* loop returns to Loop, with the accumulator `acc`.
LoopStep(phase, first, arg, acc) ==
    LET f == Top
        kids == children[f.self]
    IN  IF f.i > Len(kids)
        THEN IF Len(stack) = 1
             THEN Set(World, <<>>, log, hist, ops, After(phase), acc)
             ELSE Set(World, Front(stack), log, hist, ops, pc, fixedUpdateDeltaTime)
        ELSE LET c == kids[f.i]
                 stk1 == [stack EXCEPT ![Len(stack)].i = f.i + 1]
                 lg1 == Append(log, Entry("reach", c, IF IsEnabled(obj, c) THEN 1 ELSE 0))
             IN  IF VisitsChild(obj, c)
                 THEN Set(World, Append(stk1, Frame(c, first[c], arg)), lg1, hist,
                          ops, pc, fixedUpdateDeltaTime)
                 ELSE Set(World, stk1, lg1, hist, ops, pc, fixedUpdateDeltaTime)

\* Mutant of NeedsStart: Start is called in every tick.
NeedsStartAlways(o, n) == TRUE

\* InternalUpdate: if (!hasStarted)
NeedsStart(o, n) == ~o[n].hasStarted

\* Mutant of ShouldMouseDown: the pointer position is not tested.
ShouldMouseDownAnywhere(o, n) == IsMouseButtonPressed(SDL_BUTTON_LEFT)

\* InternalUpdate: the pointer is in the rect and the left button was pressed
ShouldMouseDown(o, n) == Inside(o, n) /\ IsMouseButtonPressed(SDL_BUTTON_LEFT)

\* Mutant of ShouldMouseOver: the hovered flag is not tested.
ShouldMouseOverAlways(o, n) == Inside(o, n)

\* InternalUpdate: the pointer is in the rect and the node is not hovered
ShouldMouseOver(o, n) == Inside(o, n) /\ ~o[n].isInputHovered

\* InternalUpdate: else if (isInputHovered)
ShouldMouseOut(o, n) == ~Inside(o, n) /\ o[n].isInputHovered

\* InternalUpdate: if (isInputActive && game->IsMouseButtonReleased(SDL_BUTTON_LEFT))
ShouldMouseUp(o, n) == o[n].isInputActive /\ IsMouseButtonReleased(SDL_BUTTON_LEFT)

\* The hook calls of InternalUpdate in the order of the code; "Hover" is
\* the call of OnMouseOver or of OnMouseOut.
Stages == <<"Start", "OnMouseDown", "Hover", "OnMouseUp", "Update">>

StageIndex(s) == CHOOSE k \in 1..Len(Stages) : Stages[k] = s

StageCond(o, n, s) ==
    CASE s = "Start" -> NeedsStart(o, n)
      [] s = "OnMouseDown" -> ShouldMouseDown(o, n)
      [] s = "Hover" -> ShouldMouseOver(o, n) \/ ShouldMouseOut(o, n)
      [] s = "OnMouseUp" -> ShouldMouseUp(o, n)
      [] s = "Update" -> TRUE

\* The next hook InternalUpdate calls, from stage k on; after Update, the
\* loop over the children.
RECURSIVE NextStage(_, _, _)
NextStage(o, n, k) ==
    IF k > Len(Stages) THEN "loop"
    ELSE IF StageCond(o, n, Stages[k]) THEN Stages[k]
    ELSE NextStage(o, n, k + 1)

\* The hook called in stage s and the flags InternalUpdate sets after it.
HookOf(o, n, s) ==
    IF s = "Hover"
    THEN (IF ShouldMouseOver(o, n) THEN "OnMouseOver" ELSE "OnMouseOut")
    ELSE s

FlagsAfter(o, n, hook) ==
    CASE hook = "Start" -> [o EXCEPT ![n].hasStarted = TRUE]
      [] hook = "OnMouseDown" -> [o EXCEPT ![n].isInputActive = TRUE]
      [] hook = "OnMouseOver" -> [o EXCEPT ![n].isInputHovered = TRUE]
      [] hook = "OnMouseOut" -> [o EXCEPT ![n].isInputHovered = FALSE]
      [] hook = "OnMouseUp" -> [o EXCEPT ![n].isInputActive = FALSE]
      [] OTHER -> o

HistHook(h, n, hook) ==
    CASE hook = "Start" -> [h EXCEPT !.startCount[n] = @ + 1]
      [] hook \in {"OnMouseOver", "OnMouseOut"} ->
            [h EXCEPT !.hoverSeq[n] = Append(@, hook)]
      [] OTHER -> h

\* Game::Update
GameUpdate ==
    /\ pc = "Update"
    /\ IF stack = <<>>
       THEN Set(World, <<Frame(TheGame, "loop", deltaTime)>>, Mark(log, "Update"),
                hist, ops, pc, fixedUpdateDeltaTime)
       ELSE /\ Top.self = TheGame
            /\ LoopStep("Update", [c \in Nodes |-> NextStage(obj, c, 1)],
                        deltaTime, fixedUpdateDeltaTime)

\* RenderObject::InternalUpdate: one hook call with the flag it sets, or
\* one turn of the loop over the children.
InternalUpdate ==
    /\ pc = "Update"
    /\ stack # <<>>
    /\ Top.self # TheGame
    /\ IF Top.pc = "loop"
       THEN LoopStep("Update", [c \in Nodes |-> NextStage(obj, c, 1)],
                     Top.arg, fixedUpdateDeltaTime)
       ELSE LET n == Top.self
                hook == HookOf(obj, n, Top.pc)
            IN  \E e \in Effects(World, stack) :
                   LET W1 == ApplyEffect(World, e)
                       W2 == [W1 EXCEPT !.obj = FlagsAfter(W1.obj, n, hook)]
                   IN  Set(W2,
                           [stack EXCEPT ![Len(stack)].pc =
                               NextStage(W2.obj, n, StageIndex(Top.pc) + 1)],
                           LogHook(log, hook, n, Top.arg, e),
                           HistEffect(HistHook(hist, n, hook), e, World, FALSE),
                           ops + OpCost(e), pc, fixedUpdateDeltaTime)


\* Game::FixedUpdate: if (fixedUpdateDeltaTime > fixedFrameTime)
FixedUpdateDue(acc) == acc > fixedFrameTime

\* Mutant of AfterFixedStep: the accumulator is reset.
AfterFixedStepReset(acc) == 0

\* Game::FixedUpdate: fixedUpdateDeltaTime -= fixedFrameTime
AfterFixedStep(acc) == acc - fixedFrameTime

\* Game::FixedUpdate: the accumulator grows by deltaTime; when the step is
\* due, the loop over the children, called with the accumulator, and then
\* fixedUpdateDeltaTime -= fixedFrameTime.
GameFixedUpdate ==
    /\ pc = "FixedUpdate"
    /\ IF stack = <<>>
       THEN LET acc == fixedUpdateDeltaTime + deltaTime IN
            IF FixedUpdateDue(acc)
            THEN Set(World, <<Frame(TheGame, "loop", acc)>>,
                     Mark(log, "FixedUpdate"), hist, ops, pc, acc)
            ELSE Set(World, <<>>, Mark(log, "FixedUpdate"), hist, ops,
                     After("FixedUpdate"), acc)
       ELSE /\ Top.self = TheGame
            /\ LoopStep("FixedUpdate", [c \in Nodes |-> "FixedUpdate"],
                        Top.arg, AfterFixedStep(fixedUpdateDeltaTime))

\* RenderObject::InternalFixedUpdate
InternalFixedUpdate ==
    /\ pc = "FixedUpdate"
    /\ stack # <<>>
    /\ Top.self # TheGame
    /\ IF Top.pc = "loop"
       THEN LoopStep("FixedUpdate", [c \in Nodes |-> "FixedUpdate"],
                     Top.arg, fixedUpdateDeltaTime)
       ELSE \E e \in Effects(World, stack) :
               Set(ApplyEffect(World, e),
                   [stack EXCEPT ![Len(stack)].pc = "loop"],
                   LogHook(log, "FixedUpdate", Top.self, Top.arg, e),
                   HistEffect(hist, e, World, FALSE),
                   ops + OpCost(e), pc, fixedUpdateDeltaTime)

\* sort(children.begin(), children.end(), a->z < b->z): std::sort leaves the
\* order of elements with equal z unspecified.
Sort(o, s) ==
    {t \in [1..Len(s) -> Range(s)] :
        /\ \A c \in Range(s) : Cardinality(Positions(t, c)) = Cardinality(Positions(s, c))
        /\ \A i, j \in 1..Len(s) : i < j => ~(o[t[j]].z < o[t[i]].z)}

\* Game::Render: clear, sort, render the enabled children, present.
GameRender ==
    /\ pc = "Render"
    /\ IF stack = <<>>
       THEN \E t \in Sort(obj, children[TheGame]) :
               Set([World EXCEPT !.children[TheGame] = t],
                   <<Frame(TheGame, "loop", 0)>>, Mark(log, "Render"),
                   hist, ops, pc, fixedUpdateDeltaTime)
       ELSE /\ Top.self = TheGame
            /\ LoopStep("Render", [c \in Nodes |-> "Render"], 0, fixedUpdateDeltaTime)

\* RenderObject::Render
Render ==
    /\ pc = "Render"
    /\ stack # <<>>
    /\ Top.self # TheGame
    /\ IF Top.pc = "loop"
       THEN LoopStep("Render", [c \in Nodes |-> "Render"], 0, fixedUpdateDeltaTime)
       ELSE IF ~CanRender(obj, children, Top.self)
       THEN Set(World, Front(stack), Append(log, Entry("culled", Top.self, 0)),
                hist, ops, pc, fixedUpdateDeltaTime)
       ELSE \E t \in Sort(obj, children[Top.self]) :
               Set([World EXCEPT !.children[Top.self] = t],
                   [stack EXCEPT ![Len(stack)].pc = "loop"],
                   Append(log, Entry("Render", Top.self, 0)),
                   hist, ops, pc, fixedUpdateDeltaTime)

\* One turn of the loop of DestroyChildObjects (the Game's and a node's are
\* the same): the child's own sweep is called; when it has returned, a
\* marked child gets OnDestroy and is erased, an unmarked child is passed.
SweepStep ==
    LET f == Top
        p == f.self
        kids == children[p]
    IN  IF f.pc = "loop" /\ f.i > Len(kids)
        THEN IF Len(stack) = 1
             THEN Set(World, <<>>, log, hist, ops, After("DestroyChildObjects"),
                      fixedUpdateDeltaTime)
             ELSE Set(World, Front(stack), log, hist, ops, pc, fixedUpdateDeltaTime)
        ELSE LET c == kids[f.i] IN
             IF f.pc = "loop" /\ children[c] # <<>>
             THEN Set(World,
                      Append([stack EXCEPT ![Len(stack)].pc = "after"],
                             Frame(c, "loop", 0)),
                      log, hist, ops, pc, fixedUpdateDeltaTime)
             ELSE IF HasBeenMarkedForDestroy(obj, c)
             THEN \E e \in Effects(World, stack) :
                     LET W1 == ApplyEffect(World, e)
                         W2 == [W1 EXCEPT !.children[p] = RemoveAt(@, f.i)]
                         h1 == HistEffect(hist, e, World, TRUE)
                     IN  Set(W2, [stack EXCEPT ![Len(stack)].pc = "loop"],
                             LogHook(log, "OnDestroy", c, 0, e),
                             [h1 EXCEPT !.destroyOrder = Append(@, c),
                                        !.removed = @ \cup Subtree(W1.children, c)],
                             ops + OpCost(e), pc, fixedUpdateDeltaTime)
             ELSE Set(World, [stack EXCEPT ![Len(stack)].pc = "loop",
                                           ![Len(stack)].i = f.i + 1],
                      log, hist, ops, pc, fixedUpdateDeltaTime)

\* Game::DestroyChildObjects
GameDestroyChildObjects ==
    /\ pc = "DestroyChildObjects"
    /\ IF stack = <<>>
       THEN Set(World, <<Frame(TheGame, "loop", 0)>>,
                Mark(log, "DestroyChildObjects"), hist, ops, pc,
                fixedUpdateDeltaTime)
       ELSE Top.self = TheGame /\ SweepStep

\* RenderObject::DestroyChildObjects
DestroyChildObjects ==
    /\ pc = "DestroyChildObjects"
    /\ stack # <<>>
    /\ Top.self # TheGame
    /\ SweepStep

---------------------------------------------------------------------------
(* Specifications *)

\* No Animator has been constructed; no function has been called.
NoAnimator == [mode |-> "none"]

NoCall == [fn |-> "none"]

\* The objects of Pong have not been constructed.
NoPong == [made |-> FALSE]

\* No TextRenderObject has been constructed.
NoText == [font |-> "none"]

\* Game's members before the constructor's body runs: window and renderer
\* are nullptr, SDL is not initialised.  setup is the value returned by the
\* last call of Setup ("none": not called); calls are the SDL functions
\* that have been handed the window or the renderer outside Setup;
\* released are the calls of the destructor, in order.
NoSdl == [init |-> FALSE, window |-> "nullptr", renderer |-> "nullptr",
          setup |-> "none", calls |-> {}, released |-> <<>>]

\* What SDL_Init, SDL_CreateWindow and SDL_CreateRenderer answer: success or not.
SdlOutcomes == [init : BOOLEAN, window : BOOLEAN, renderer : BOOLEAN]

\* Game::Setup, on a Game that has no window and no renderer yet.
Setup(S, oc) ==
    IF ~oc.init THEN [S EXCEPT !.setup = "false"]
    ELSE IF ~oc.window THEN [S EXCEPT !.init = TRUE, !.setup = "false"]
    ELSE IF ~oc.renderer
    THEN [S EXCEPT !.init = TRUE, !.window = "window", !.setup = "false"]
    ELSE [S EXCEPT !.init = TRUE, !.window = "window", !.renderer = "renderer",
                   !.setup = "true"]

\* Every SDL call of Setup succeeds.
SetupDone == Setup(NoSdl, [init |-> TRUE, window |-> TRUE, renderer |-> TRUE])

InitFields ==
    /\ count = 0
    /\ made = 0
    /\ obj = [n \in Nodes |-> NewRenderObject]
    /\ children = [p \in Owners |-> <<>>]
    /\ quit = FALSE
    /\ focused = FALSE
    /\ keyState = [k \in Keys |-> FALSE]
    /\ keyPressedState = [k \in Keys |-> FALSE]
    /\ keyReleasedState = [k \in Keys |-> FALSE]
    /\ mousePosition = [x |-> 0, y |-> 0]
    /\ mouseState = [b \in Buttons |-> FALSE]
    /\ mousePressedState = [b \in Buttons |-> FALSE]
    /\ mouseReleasedState = [b \in Buttons |-> FALSE]
    /\ deltaTime = 0
    /\ fixedUpdateDeltaTime = 0
    /\ stack = <<>>
    /\ frame = 0
    /\ ops = 0
    /\ nevents = 0
    /\ log = <<>>
    /\ hist = InitHist
    /\ cancelled = FALSE
    /\ animator = NoAnimator
    /\ out = NoCall
    /\ txt = NoText
    /\ pong = NoPong

\* main() begins: the Game has been constructed and set up.
InitProgram ==
    /\ InitFields
    /\ pc = "main"
    /\ sdl = SetupDone

\* The lifecycle of the forest: hooks call the API, no raw events arrive.
Init ==
    /\ InitProgram
    /\ env = [maxNodes |-> LifeNodes, maxFrames |-> MaxFrames, maxOps |-> MaxOps,
              maxEvents |-> 0, alphabet |-> {}, deltaTimes |-> SlowFrames]

\* The same with more calls by hooks and more nodes.
InitDestroy ==
    /\ InitProgram
    /\ env = [maxNodes |-> MaxNodes, maxFrames |-> MaxFrames, maxOps |-> DestroyOps,
              maxEvents |-> 0, alphabet |-> {}, deltaTimes |-> SlowFrames]

\* Input: key events arrive, the hooks call nothing.
InitKeys ==
    /\ InitProgram
    /\ env = [maxNodes |-> InputNodes, maxFrames |-> KeyFrames, maxOps |-> 0,
              maxEvents |-> MaxKeyEvents, alphabet |-> KeyEvents \cup QuitEvents,
              deltaTimes |-> SlowFrames]

\* Input: the pointer moves, the hooks call nothing.
InitHover ==
    /\ InitProgram
    /\ env = [maxNodes |-> InputNodes, maxFrames |-> HoverFrames, maxOps |-> 0,
              maxEvents |-> MaxHoverEvents, alphabet |-> MotionEvents \cup QuitEvents,
              deltaTimes |-> SlowFrames]

\* Input: the buttons change and the pointer leaves, the hooks call nothing.
InitClick ==
    /\ InitProgram
    /\ env = [maxNodes |-> InputNodes, maxFrames |-> ClickFrames, maxOps |-> 0,
              maxEvents |-> MaxClickEvents, alphabet |-> ButtonEvents \cup LeaveEvents \cup QuitEvents,
              deltaTimes |-> SlowFrames]

Next ==
    \/ MainAddChildObject
    \/ Run
    \/ Loop
    \/ RunReturn
    \/ HandleInput
    \/ GameUpdate
    \/ InternalUpdate
    \/ GameFixedUpdate
    \/ InternalFixedUpdate
    \/ GameRender
    \/ Render
    \/ GameDestroyChildObjects
    \/ DestroyChildObjects
    \/ LoopEnd

Spec == Init /\ [][Next]_vars

SpecDestroy == InitDestroy /\ [][Next]_vars

SpecKeys == InitKeys /\ [][Next]_vars

SpecHover == InitHover /\ [][Next]_vars

SpecClick == InitClick /\ [][Next]_vars

---------------------------------------------------------------------------
(* Properties: the loop and the lifecycle of a node *)

\* The hooks of a variable-update tick other than Start.
TickHooks == {"OnMouseDown", "OnMouseOver", "OnMouseOut", "OnMouseUp", "Update"}

\* All hooks of the update phases.
UpdateHooks == TickHooks \cup {"Start", "FixedUpdate"}

\* The phase (index in PhaseNames) in which entry i of the log was written.
PhaseAt(lg, i) ==
    Cardinality({j \in 1..i : lg[j].ev = "phase"})

\* The iteration has run all its phases.
IterationDone == pc = "LoopEnd" \/ (pc \in {"Run", "exit"} /\ frame > 0)

\* C1: in every iteration of Game::Loop the phases begun so far are a
\* prefix of HandleInput, Update, FixedUpdate, Render, DestroyChildObjects,
\* each begun once; a phase is at work only between its own begin and the
\* begin of the next one; the iteration ends, and the next one begins,
\* only when all five have begun and the sweep has returned.
C1_PhaseOrder ==
    LET begun == Phases(log) IN
    /\ Len(begun) <= Len(PhaseNames)
    /\ \A i \in 1..Len(begun) : begun[i] = i
    /\ stack # <<>> =>
          /\ begun # <<>>
          /\ PhaseNames[Last(begun)] = pc
    /\ (pc \in Range(PhaseNames) /\ stack = <<>>) =>
          Len(begun) = PhaseIndex(pc) - 1
    /\ IterationDone =>
          /\ Len(begun) = Len(PhaseNames)
          /\ stack = <<>>
    /\ frame = 0 => log = <<>>

\* C1's case: the second iteration has run its five phases, with hooks
\* called in the update, the render and the sweep.
C1_Witness ==
    /\ pc = "LoopEnd"
    /\ frame = 2
    /\ \E n \in Nodes : HasEntry(log, "Update", n) /\ HasEntry(log, "Render", n)
    /\ \E n \in Nodes : HasEntry(log, "OnDestroy", n)

\* C2: Start is called at most once on a node; a tick in which Start is
\* called is the first tick of the node; in a tick, Start comes before the
\* mouse hooks and Update; no mouse hook or Update of a node is called
\* when its Start has not been.
C2_StartOnce ==
    /\ \A n \in Nodes :
          /\ hist.startCount[n] <= 1
          /\ obj[n].hasStarted <=> hist.startCount[n] = 1
          /\ n \in hist.updatedBefore => hist.startCount[n] = 1
    /\ \A i \in 1..Len(log) :
          /\ log[i].ev \in TickHooks => hist.startCount[log[i].n] = 1
          /\ log[i].ev = "Start" =>
                /\ log[i].n \notin hist.updatedBefore
                /\ \A j \in 1..(i - 1) :
                      ~(log[j].n = log[i].n /\ log[j].ev \in TickHooks)

\* C2's case: a node is in its second tick, which has called a mouse hook
\* or Update but not Start, and another node has had Start in this tick.
C2_Witness ==
    /\ \E n \in hist.updatedBefore :
          /\ HasEntry(log, "Update", n)
          /\ ~HasEntry(log, "Start", n)
    /\ \E m \in Nodes :
          /\ HasEntry(log, "Start", m)
          /\ HasEntry(log, "OnMouseOver", m)
          /\ HasEntry(log, "Update", m)

\* Entry i of the log records that the traversal of the variable-update
\* or of the fixed-update phase reached a disabled node.
SkippedAt(i) ==
    /\ log[i].ev = "reach"
    /\ log[i].arg = 0
    /\ PhaseAt(log, i) \in {PhaseIndex("Update"), PhaseIndex("FixedUpdate")}

\* C3: in the variable-update phase and in the fixed-update phase, when
\* the traversal reaches a disabled node, no node of its subtree gets a
\* hook in that phase (Start, mouse hooks, Update, FixedUpdate), and
\* InternalUpdate or InternalFixedUpdate is entered for none of them, so
\* there is no hit-test either.
C3_DisabledSubtreeSkipped ==
    pc \in {"Update", "FixedUpdate"} =>
        \A i \in 1..Len(log) :
            SkippedAt(i) =>
                LET S == Subtree(children, log[i].n) IN
                /\ \A j \in 1..Len(log) :
                      (PhaseAt(log, j) = PhaseAt(log, i) /\ log[j].n \in S) =>
                          log[j].ev \notin UpdateHooks
                /\ PhaseAt(log, i) = Len(Phases(log)) =>
                      \A k \in 1..Len(stack) : stack[k].self \notin S

\* C3's case: the fixed-update traversal has returned to the Game after
\* it reached a disabled node that has an enabled child, and so had the
\* variable-update traversal of this iteration.
C3_Witness ==
    /\ pc = "FixedUpdate"
    /\ Len(stack) = 1
    /\ Top.i > Len(children[TheGame])
    /\ \E i, j \in 1..Len(log) :
          /\ SkippedAt(i) /\ SkippedAt(j)
          /\ log[i].n = log[j].n
          /\ PhaseAt(log, i) = PhaseIndex("Update")
          /\ PhaseAt(log, j) = PhaseIndex("FixedUpdate")
          /\ \E c \in Range(children[log[i].n]) : IsEnabled(obj, c)

---------------------------------------------------------------------------
(* Properties: Destroy and the sweep *)

\* m is before n in the sequence s.
Precedes(s, m, n) ==
    \E i, j \in 1..Len(s) : i < j /\ s[i] = m /\ s[j] = n

\* C4: when an iteration has run its sweep, every node covered by a
\* Destroy() call made before that sweep (the node the call was made on and
\* the descendants it had then) is absent from the forest, has had
\* OnDestroy exactly once, and after the OnDestroy of each of those
\* descendants; and no node has left the forest that no Destroy() call has
\* covered.
C4_SweepRemovesExactlyTheDestroyed ==
    pc = "LoopEnd" =>
        /\ \A m \in hist.ripe :
              /\ m \notin Forest(children)
              /\ Cardinality(Positions(hist.destroyOrder, m)) = 1
              /\ \A d \in hist.sub[m] : Precedes(hist.destroyOrder, d, m)
        /\ hist.removed \subseteq hist.ripe \cup hist.late


\* The step has made a Destroy() call: the log has got its entry.
DestroyCalled == Len(log') > Len(log) /\ Last(log').ev = "Destroy"

\* C5: a step in which Destroy() is called on a node leaves the flag set
\* on the node and on every node that was in its subtree; no step clears
\* the flag of a node.
C5_DestroyMarksSubtree ==
    [][/\ \A n \in Nodes :
             obj[n].isMarkedForDestroy => obj'[n].isMarkedForDestroy
       /\ DestroyCalled =>
             \A m \in Subtree(children, Last(log').n) :
                 obj'[m].isMarkedForDestroy]_vars

\* C5's case: Destroy() has just been called on a node whose child is
\* disabled and has a child of its own, and all three are marked.
C5_Witness ==
    /\ log # <<>>
    /\ Last(log).ev = "Destroy"
    /\ \E c \in Range(children[Last(log).n]) :
          /\ ~IsEnabled(obj, c)
          /\ children[c] # <<>>
          /\ \A m \in {Last(log).n} \cup Subtree(children, c) :
                HasBeenMarkedForDestroy(obj, m)

\* C6: a step taken outside the destroy sweep removes no element from the
\* children of the Game or of a node, so no node leaves the forest.
C6_RemovalOnlyInSweep ==
    [][pc # "DestroyChildObjects" =>
          /\ \A p \in Owners :
                \A c \in Range(children[p]) :
                    Cardinality(Positions(children[p], c))
                        <= Cardinality(Positions(children'[p], c))
          /\ Forest(children) \subseteq Forest(children')]_vars

\* C6's case: a node on which Destroy() was called in the update of this
\* iteration has been rendered since and is in the forest when the sweep
\* begins.
C6_Witness ==
    /\ pc = "DestroyChildObjects"
    /\ stack = <<>>
    /\ \E n \in Forest(children) :
          /\ HasBeenMarkedForDestroy(obj, n)
          /\ \E i, j \in 1..Len(log) :
                /\ i < j
                /\ log[i] = Entry("Destroy", n, 0)
                /\ log[j] = Entry("Render", n, 0)

---------------------------------------------------------------------------
(* Properties: input *)

\* The input phase of the iteration has run: the tables are those the
\* hooks of this frame read.
InputDrained == pc \in {"Update", "FixedUpdate", "Render", "DestroyChildObjects", "LoopEnd"}

\* Node n has had its variable-update tick in this iteration, up to Update.
Ticked(n) == HasEntry(log, "Update", n)

\* C7: in the frame that drains exactly one KEY_DOWN and no KEY_UP for a
\* key that was up, IsKeyPressed and IsKeyDown are true for the key; in
\* every later frame, as long as no frame has drained a KEY_UP for it,
\* IsKeyPressed is false and IsKeyDown is true.
C7_KeyEdges ==
    InputDrained =>
        \A k \in Keys :
            /\ hist.keyHist[k] = "F" => IsKeyPressed(k) /\ IsKeyDown(k)
            /\ hist.keyHist[k] = "later" => ~IsKeyPressed(k) /\ IsKeyDown(k)

\* C7's case: the key went down in an earlier frame, no KEY_UP has come,
\* and the third frame has drained a repeated KEY_DOWN; a node's Update
\* has run.
C7_Witness ==
    /\ pc = "Update"
    /\ frame = 3
    /\ \E n \in Nodes : Ticked(n)
    /\ \E k \in Keys :
          /\ hist.keyHist[k] = "later"
          /\ NumOf(hist.drained, "SDL_KEYDOWN", k) = 1

\* The OnMouseOver and OnMouseOut calls of a node, in order, alternate and
\* begin with OnMouseOver.
Alternates(s) ==
    \A i \in 1..Len(s) : s[i] = (IF i % 2 = 1 THEN "OnMouseOver" ELSE "OnMouseOut")

\* C8: in the tick of a node that was updated in the frame before, or
\* never, OnMouseOver is called once if the pointer is inside the rect
\* GetTransformedRect gives and was not in the frame before, OnMouseOut is
\* called once if the pointer is outside and was inside in the frame
\* before, and neither is called otherwise; the calls of a node alternate,
\* OnMouseOver first.
C8_HoverHysteresis ==
    \A n \in Nodes :
        /\ Alternates(hist.hoverSeq[n])
        /\ (Ticked(n) /\ (hist.prevInside[n] # "none" \/ n \notin hist.updatedBefore)) =>
              LET inside == Inside(obj, n)
                  entered == inside /\ hist.prevInside[n] # "in"
                  left == ~inside /\ hist.prevInside[n] = "in"
              IN  /\ CountOf(log, "OnMouseOver", n) = (IF entered THEN 1 ELSE 0)
                  /\ CountOf(log, "OnMouseOut", n) = (IF left THEN 1 ELSE 0)

\* C8's case: the pointer has been inside a node's rect for frames, with
\* one OnMouseOver, and is outside in the fourth frame: the node has, in
\* this tick, its one OnMouseOut.
C8_Witness ==
    /\ frame = 4
    /\ \E n \in Nodes :
          /\ Ticked(n)
          /\ hist.prevInside[n] = "in"
          /\ ~Inside(obj, n)
          /\ hist.hoverSeq[n] = <<"OnMouseOver", "OnMouseOut">>
          /\ HasEntry(log, "OnMouseOut", n)

\* C9: in the tick of a node, OnMouseDown is called (once) exactly when
\* the pointer is inside the node's rect and the left button has a
\* pressed edge in this frame; OnMouseUp is called (once) exactly when the
\* node is input-active then (it was before the tick or has just become)
\* and the left button has a released edge in this frame; after the tick
\* the node is input-active exactly when it was active or became so and
\* OnMouseUp was not called.
C9_MouseDownUp ==
    \A n \in Nodes :
        Ticked(n) =>
            LET down == Inside(obj, n) /\ IsMouseButtonPressed(SDL_BUTTON_LEFT)
                active == hist.wasActive[n] \/ down
                up == active /\ IsMouseButtonReleased(SDL_BUTTON_LEFT)
            IN  /\ CountOf(log, "OnMouseDown", n) = (IF down THEN 1 ELSE 0)
                /\ CountOf(log, "OnMouseUp", n) = (IF up THEN 1 ELSE 0)
                /\ obj[n].isInputActive = (active /\ ~up)

\* C9's case: a node became input-active in the first frame; in the
\* second the pointer has left its rect and the button is released: the
\* node has had OnMouseUp and is not input-active.
C9_Witness ==
    /\ frame = 2
    /\ \E n \in Nodes :
          /\ Ticked(n)
          /\ hist.wasActive[n]
          /\ ~Inside(obj, n)
          /\ IsMouseButtonReleased(SDL_BUTTON_LEFT)
          /\ HasEntry(log, "OnMouseUp", n)
          /\ ~obj[n].isInputActive

---------------------------------------------------------------------------
(* AddChildObject called freely: nodes are constructed and added to the
   Game and to each other, as code holding the shared pointers may do. *)

\* std::make_shared<RenderObject>()
MakeShared ==
    /\ pc = "main"
    /\ made < env.maxNodes
    /\ Set(Construct(World), stack, log, hist, ops, pc, fixedUpdateDeltaTime)

\* game->AddChildObject(c) for a constructed node c
CallGameAddChildObject ==
    /\ pc = "main"
    /\ ops < env.maxOps
    /\ \E c \in 1..made :
          Set(GameAddChildObject(World, c), stack, log, hist, ops + 1, pc,
              fixedUpdateDeltaTime)

\* p->AddChildObject(c) for constructed nodes p and c
CallAddChildObject ==
    /\ pc = "main"
    /\ ops < env.maxOps
    /\ \E p, c \in 1..made :
          Set(AddChildObject(World, p, c), stack, log, hist, ops + 1, pc,
              fixedUpdateDeltaTime)

InitAdd ==
    /\ InitProgram
    /\ env = [maxNodes |-> MaxNodes, maxFrames |-> 0, maxOps |-> MaxAddCalls,
              maxEvents |-> 0, alphabet |-> {}, deltaTimes |-> SlowFrames]

NextAdd ==
    \/ MakeShared
    \/ CallGameAddChildObject
    \/ CallAddChildObject

SpecAdd == InitAdd /\ [][NextAdd]_vars

\* The owners reachable from the Game in at most k steps from those in S
\* (the children relation may have cycles here).
RECURSIVE ReachableOwners(_, _, _)
ReachableOwners(ch, S, k) ==
    IF k = 0 THEN S
    ELSE ReachableOwners(ch, S \cup UNION {Range(ch[p]) : p \in S}, k - 1)

\* The number of occurrences of node c in the children sequences of the
\* owners in the sequence ps.
RECURSIVE Occurrences(_, _, _)
Occurrences(ch, ps, c) ==
    IF ps = <<>> THEN 0
    ELSE Cardinality(Positions(ch[ps[1]], c)) + Occurrences(ch, Tail(ps), c)

\* The owners 0..MaxNodes in order, those outside F left out.
OwnerSeq(F) == SelectSeq([i \in 1..(MaxNodes + 1) |-> i - 1], LAMBDA p : p \in F)

\* C10: after any sequence of AddChildObject calls, every node occurs at
\* most once in all the children sequences of the forest together (the
\* Game's and those of the nodes reachable from it), and the parent
\* back-reference of a node names the node whose sequence holds it
\* (nullptr for a node the Game holds).
C10_SingleOwner ==
    LET F == ReachableOwners(children, {TheGame}, MaxNodes) IN
    /\ \A c \in Nodes : Occurrences(children, OwnerSeq(F), c) <= 1
    /\ \A p \in F : \A c \in Range(children[p]) :
          obj[c].parent = (IF p = TheGame THEN nullptr ELSE p)


\* C11: after any sequence of AddChildObject calls, every node reachable
\* from Game::children has its game back-reference set to the Game, so
\* no tick or render of a node of the forest dereferences a null game.
C11_GameBackReference ==
    \A n \in ReachableOwners(children, {TheGame}, MaxNodes) \ {TheGame} :
        obj[n].game


---------------------------------------------------------------------------
(* The three constructors of RenderObject *)

\* The coordinates and sizes passed to the constructors.
CtorCoords == {0, 20}

CtorSizes == {5}

\* The values a member without an initialiser, never assigned, may hold.
Indeterminate == 0..MaxNodes

\* RenderObject(float x, float y): SetPosition(x, y) on the value-initialised
\* rect; index is not assigned and RenderObject::count not touched.
ConstructAt(W, x, y, garbage) ==
    [W EXCEPT !.made = @ + 1,
              !.obj[W.made + 1] =
                  [NewRenderObject EXCEPT
                      !.index = garbage,
                      !.rect = [x |-> x, y |-> y, w |-> 0, h |-> 0]]]

\* RenderObject(float x, float y, float w, float h): SetRect(x, y, w, h);
\* index is not assigned and RenderObject::count not touched.
ConstructRect(W, x, y, w, h, garbage) ==
    [W EXCEPT !.made = @ + 1,
              !.obj[W.made + 1] =
                  [NewRenderObject EXCEPT
                      !.index = garbage,
                      !.rect = [x |-> x, y |-> y, w |-> w, h |-> h]]]

\* std::make_shared<RenderObject>(x, y)
MakeSharedAt ==
    /\ pc = "main"
    /\ made < env.maxNodes
    /\ \E x, y \in CtorCoords, garbage \in Indeterminate :
          Set(ConstructAt(World, x, y, garbage), stack, log, hist, ops, pc,
              fixedUpdateDeltaTime)

\* std::make_shared<RenderObject>(x, y, w, h)
MakeSharedRect ==
    /\ pc = "main"
    /\ made < env.maxNodes
    /\ \E x, y \in CtorCoords, w, h \in CtorSizes, garbage \in Indeterminate :
          Set(ConstructRect(World, x, y, w, h, garbage), stack, log, hist,
              ops, pc, fixedUpdateDeltaTime)

InitCtor ==
    /\ InitProgram
    /\ env = [maxNodes |-> MaxNodes, maxFrames |-> 0, maxOps |-> 0,
              maxEvents |-> 0, alphabet |-> {}, deltaTimes |-> SlowFrames]

NextCtor ==
    \/ MakeShared
    \/ MakeSharedAt
    \/ MakeSharedRect

SpecCtor == InitCtor /\ [][NextCtor]_vars

\* C12: every node constructed, by whichever constructor, has an index
\* strictly greater than the index of every node constructed before it
\* (nodes are named in construction order), so no two indices are equal.
C12_IndexIncreasing ==
    \A i, j \in 1..made : i < j => obj[i].index < obj[j].index


---------------------------------------------------------------------------
(* The rectangle functions, called on trees built with SetRect, SetScale,
   SetAnchor and Disable *)

\* operator|(RectAnchor, RectAnchor): the bitwise or of the two uint8_t
RECURSIVE BitOr(_, _)
BitOr(a, b) ==
    IF a = 0 THEN b
    ELSE IF b = 0 THEN a
    ELSE (IF a % 2 = 1 \/ b % 2 = 1 THEN 1 ELSE 0) + 2 * BitOr(a \div 2, b \div 2)

\* The enumerators of RectAnchor.
AnchorFlags == {TOP, LEFT, BOTTOM, RIGHT, VCENTER, HCENTER}

\* The anchor value written flag | flag | ... for the flags in F.
RECURSIVE OrAll(_)
OrAll(F) ==
    IF F = {} THEN 0
    ELSE LET f == CHOOSE g \in F : TRUE IN BitOr(f, OrAll(F \ {f}))

\* RenderObject::SetRect(x, y, w, h)
SetRect(W, n, r) == [W EXCEPT !.obj[n].rect = r]

\* RenderObject::SetScale
SetScale(W, n, s) == [W EXCEPT !.obj[n].scale = s]

\* RenderObject::SetAnchor
SetAnchor(W, n, a) == [W EXCEPT !.obj[n].anchor = a]

\* The rectangles, scales and anchors given to the nodes of a tree: the
\* second rectangle lies beside the first, the third outside the viewport.
TreeRects ==
    {[x |-> 0, y |-> 0, w |-> 10, h |-> 10],
     [x |-> 20, y |-> 20, w |-> 5, h |-> 5],
     [x |-> 900, y |-> 0, w |-> 10, h |-> 10]}

Scales == {1, 2}

TreeAnchors == {BitOr(TOP, LEFT), BitOr(BOTTOM, RIGHT)}

\* The rectangles and anchors given to a single node: even sizes, so that
\* the halves are whole; every anchor value that flags can be or-ed to.
AnchorRects ==
    {[x |-> 0, y |-> 0, w |-> 10, h |-> 10],
     [x |-> 20, y |-> 20, w |-> 6, h |-> 4]}

AnchorValues == {OrAll(F) : F \in SUBSET AnchorFlags}

\* main(): a node is constructed, given its rectangle, scale and anchor,
\* disabled or not, and added to the Game or to a node of the forest.
MainAddRect ==
    /\ pc = "main"
    /\ made < env.maxNodes
    /\ \E p \in {TheGame} \cup Forest(children), r \in env.rects,
          s \in Scales, a \in env.anchors, e \in env.enabled :
          LET n == made + 1
              W1 == SetAnchor(SetScale(SetRect(Construct(World), n, r), n, s), n, a)
              W2 == IF e THEN W1 ELSE Disable(W1, n)
              W3 == IF p = TheGame THEN GameAddChildObject(W2, n)
                    ELSE AddChildObject(W2, p, n)
          IN  Set(W3, stack, log, hist, ops, pc, fixedUpdateDeltaTime)

\* A call with a result leaves everything but the result as it is.
Called(fn, n, val) ==
    /\ out' = [fn |-> fn, n |-> n, val |-> val]
    /\ pc' = "called"
    /\ UNCHANGED <<forestVars, quit, inputVars, timeVars, stack, env, frame,
                   ops, nevents, log, hist, cancelled, animator, extVars>>

\* main(): n->GetTransformedRect() on the finished tree
CallGetTransformedRect ==
    /\ pc \in {"main", "called"}
    /\ \E n \in 1..made :
          Called("GetTransformedRect", n, GetTransformedRect(obj, n))

\* main(): n->CalculateBoundingBox() on the finished tree
CallCalculateBoundingBox ==
    /\ pc \in {"main", "called"}
    /\ \E n \in 1..made :
          Called("CalculateBoundingBox", n, CalculateBoundingBox(obj, children, n))

InitRect ==
    /\ InitProgram
    /\ env = [maxNodes |-> TreeNodes, maxFrames |-> 0, maxOps |-> 0,
              maxEvents |-> 0, alphabet |-> {}, deltaTimes |-> SlowFrames,
              rects |-> TreeRects, anchors |-> TreeAnchors,
              enabled |-> BOOLEAN]

InitAnchor ==
    /\ InitProgram
    /\ env = [maxNodes |-> AnchorNodes, maxFrames |-> 0, maxOps |-> 0,
              maxEvents |-> 0, alphabet |-> {}, deltaTimes |-> SlowFrames,
              rects |-> AnchorRects, anchors |-> AnchorValues,
              enabled |-> {TRUE}]

NextRect ==
    \/ MainAddRect
    \/ CallGetTransformedRect
    \/ CallCalculateBoundingBox

SpecRect == InitRect /\ [][NextRect]_vars

SpecAnchor == InitAnchor /\ [][NextRect]_vars

\* The node's own scaled and anchored rectangle: what GetTransformedRect
\* computes before it looks at the parent.
OwnRect(o, n) == GetTransformedRect([o EXCEPT ![n].parent = nullptr], n)

\* The world rectangle: the own rectangle moved by the origin of the
\* parent's world rectangle, its size multiplied by the parent's scale.
RECURSIVE WorldRect(_, _)
WorldRect(o, n) ==
    LET own == OwnRect(o, n)
        p == o[n].parent
    IN  IF p = nullptr THEN own
        ELSE LET pw == WorldRect(o, p) IN
             [x |-> own.x + pw.x, y |-> own.y + pw.y,
              w |-> own.w * o[p].scale, h |-> own.h * o[p].scale]

\* C13: for a node with a parent, GetTransformedRect returns the node's own
\* scaled and anchored origin plus the origin of the parent's world rect
\* (anchor shift and ancestors' offsets of the parent included), unscaled,
\* and the node's scaled size multiplied by the parent's scale.
C13_ParentWorldOrigin ==
    (out.fn = "GetTransformedRect" /\ obj[out.n].parent # nullptr)
        => out.val = WorldRect(obj, out.n)


\* The rectangle r scaled by s and shifted as the anchor flags in F ask:
\* half the width for HCENTER, else the width for RIGHT; half the height
\* for VCENTER, else the height for BOTTOM.
AnchoredBy(F, r, s) ==
    LET w == r.w * s
        h == r.h * s
    IN  [x |-> IF HCENTER \in F THEN r.x - (w \div 2)
               ELSE IF RIGHT \in F THEN r.x - w
               ELSE r.x,
         y |-> IF VCENTER \in F THEN r.y - (h \div 2)
               ELSE IF BOTTOM \in F THEN r.y - h
               ELSE r.y,
         w |-> w,
         h |-> h]

\* C14: for a node without parent whose anchor was written as the or of the
\* flags in F, whatever F is, GetTransformedRect returns the local rect
\* scaled by the node's scale and shifted by the rule for the flags in F
\* alone (HCENTER|BOTTOM shifts y by the full height, HCENTER|TOP not at all).
C14_AnchorRule ==
    (out.fn = "GetTransformedRect" /\ obj[out.n].parent = nullptr)
        => \A F \in SUBSET AnchorFlags :
              OrAll(F) = obj[out.n].anchor
                  => out.val = AnchoredBy(F, obj[out.n].rect, obj[out.n].scale)


MinOf(S) == CHOOSE m \in S : \A k \in S : m <= k

MaxOf(S) == CHOOSE m \in S : \A k \in S : m >= k

\* The smallest axis-aligned rectangle that contains the rectangles in S.
Hull(S) ==
    LET x == MinOf({r.x : r \in S})
        y == MinOf({r.y : r \in S})
    IN  [x |-> x, y |-> y,
         w |-> MaxOf({r.x + r.w : r \in S}) - x,
         h |-> MaxOf({r.y + r.h : r \in S}) - y]

\* The bounding box as a set union: the hull of the node's rectangle and of
\* the boxes of its children that are enabled and meet the viewport.  The
\* node's rectangle is its world rectangle, or, with world = FALSE, the
\* rectangle GetTransformedRect computes.
RECURSIVE UnionBox(_, _, _, _)
UnionBox(o, ch, n, world) ==
    LET own == IF world THEN WorldRect(o, n) ELSE GetTransformedRect(o, n)
        boxes == {UnionBox(o, ch, c, world) : c \in {d \in Range(ch[n]) : IsEnabled(o, d)}}
    IN  Hull({own} \cup {b \in boxes : SDL_HasIntersectionF(b, GetViewport)})

\* C15: CalculateBoundingBox(N) is the smallest axis-aligned rectangle that
\* contains N's world rect and the bounding boxes of exactly the children
\* of N that are enabled and meet the viewport; disabled and off-screen
\* children do not change it.
C15_BoundingBoxUnion ==
    out.fn = "CalculateBoundingBox"
        => out.val = UnionBox(obj, children, out.n, TRUE)

\* CalculateBoundingBox folds the children in as the union asks, when each
\* node's rectangle is taken as GetTransformedRect computes it.
BoundingBoxOfComputedRects ==
    out.fn = "CalculateBoundingBox"
        => out.val = UnionBox(obj, children, out.n, FALSE)

\* The example: the parent {0,0,10,10} with its one child, enabled, at
\* {20,20,5,5} has the bounding box {0,0,25,25}.
BoundingBoxExample ==
    /\ out.fn = "CalculateBoundingBox"
    /\ obj[out.n].parent = nullptr
    /\ GetTransformedRect(obj, out.n) = [x |-> 0, y |-> 0, w |-> 10, h |-> 10]
    /\ Len(children[out.n]) = 1
    /\ IsEnabled(obj, children[out.n][1])
    /\ children[children[out.n][1]] = <<>>
    /\ GetTransformedRect(obj, children[out.n][1]) = [x |-> 20, y |-> 20, w |-> 5, h |-> 5]
    /\ out.val = [x |-> 0, y |-> 0, w |-> 25, h |-> 25]


---------------------------------------------------------------------------
(* Render order *)

\* The owners whose children Render is iterating.
Rendering == {p \in Owners : pc = "Render" /\ Iterating(stack, p)}

\* C16: in every render phase the children of the Game and of every
\* rendered node are rendered in non-decreasing z, and children with equal
\* z in the order in which they were added (nodes are named in the order
\* of their construction, and each is added when it is constructed).
C16_StableRenderOrder ==
    \A p \in Rendering :
        \A i, j \in 1..Len(children[p]) :
            i < j =>
                LET a == children[p][i]
                    b == children[p][j]
                IN  /\ obj[a].z <= obj[b].z
                    /\ obj[a].z = obj[b].z => a < b


---------------------------------------------------------------------------
(* Fixed update *)

\* C17: every call of a node's FixedUpdate hook receives the fixed step
\* fixedFrameTime as its argument, whatever the frame durations and the
\* accumulated time are.
C17_FixedStepArgument ==
    \A i \in 1..Len(log) :
        log[i].ev = "FixedUpdate" => log[i].arg = fixedFrameTime


\* Frames shorter and longer than the fixed step; the hooks call nothing.
InitTime ==
    /\ InitProgram
    /\ env = [maxNodes |-> TimeNodes, maxFrames |-> TimeFrames, maxOps |-> 0,
              maxEvents |-> MaxTimeEvents, alphabet |-> QuitEvents,
              deltaTimes |-> FrameTimes]

SpecTime == InitTime /\ [][Next]_vars

\* C18: the fixed-update phase begins by adding the frame's delta time to
\* the accumulator; the walk over the tree, if it runs, runs then and only
\* once (no node's FixedUpdate hook is called twice in an iteration) and
\* when it ends the accumulator is one fixed step less than before the
\* walk; no other step changes the accumulator, so it keeps the accumulated
\* value when the walk does not run and is never reset.
C18_Accumulator ==
    /\ [](\A n \in Nodes : CountOf(log, "FixedUpdate", n) <= 1)
    /\ [][IF pc = "FixedUpdate" /\ stack = <<>>
          THEN /\ fixedUpdateDeltaTime' = fixedUpdateDeltaTime + deltaTime
               /\ pc' = "FixedUpdate" => stack' # <<>>
          ELSE IF pc = "FixedUpdate" /\ pc' # "FixedUpdate"
          THEN fixedUpdateDeltaTime' = fixedUpdateDeltaTime - fixedFrameTime
          ELSE fixedUpdateDeltaTime' = fixedUpdateDeltaTime]_vars

\* The walk has run in this iteration, a FixedUpdate hook was called, and
\* the accumulator keeps the remainder above the step.
C18_Witness ==
    /\ pc = "Render"
    /\ \E n \in Nodes : HasEntry(log, "FixedUpdate", n)
    /\ fixedUpdateDeltaTime > 0

\* The walk has not run in this iteration and the accumulator holds the
\* time of the frames so far.
AccumulatorKept ==
    /\ pc = "Render"
    /\ \A n \in Nodes : ~HasEntry(log, "FixedUpdate", n)
    /\ fixedUpdateDeltaTime = fixedFrameTime


---------------------------------------------------------------------------
(* The host-driven deployment (__EMSCRIPTEN__): Run hands Game::StaticLoop
   to the host, which calls Loop until the main loop is cancelled.  The
   frame durations used are above the 10 ms that Loop takes as the least. *)

InitHost ==
    /\ InitProgram
    /\ env = [maxNodes |-> HostNodes, maxFrames |-> HostFrames,
              maxOps |-> HostOps, maxEvents |-> MaxHostEvents,
              alphabet |-> QuitEvents, deltaTimes |-> SlowFrames]

NextHost ==
    \/ MainAddChildObject
    \/ Run
    \/ StaticLoop
    \/ HostStops
    \/ HandleInput
    \/ GameUpdate
    \/ InternalUpdate
    \/ GameFixedUpdate
    \/ InternalFixedUpdate
    \/ GameRender
    \/ Render
    \/ GameDestroyChildObjects
    \/ DestroyChildObjects
    \/ LoopEnd

SpecHost == InitHost /\ [][NextHost]_vars

\* C19: once quit is set it stays set; the iteration in progress goes on
\* through its remaining phases in order; and between iterations, with
\* quit set, no step begins a phase, whether Run's loop or the host calls
\* Loop.
C19_QuitEndsLoop ==
    [][/\ quit => quit'
       /\ (quit /\ pc \in Range(LoopBody)) => pc' \in {pc, After(pc)}
       /\ (quit /\ pc = "Run") => pc' \notin Range(LoopBody)]_vars

\* The same for the blocking loop of Run alone.
QuitEndsBlockingLoop == C19_QuitEndsLoop


---------------------------------------------------------------------------
(* Animator.  The Animation class is not among the sources; it is modelled
   from the specification: states IDLE, RUNNING, PAUSED, COMPLETE; Tick
   advances the elapsed time and returns the remaining time, zero once the
   duration is reached. *)

\* The durations of the animations and the delta times of Update.
Durations == {1, 2}

TickTimes == {1, 2}

\* Animation with a duration, not yet started
NewAnimation(d) == [state |-> "IDLE", elapsed |-> 0, duration |-> d, ticks |-> 0]

\* Animation::Start
AnimationStart(a) == [a EXCEPT !.state = "RUNNING", !.elapsed = 0]

\* Animation::Pause
AnimationPause(a) == IF a.state = "RUNNING" THEN [a EXCEPT !.state = "PAUSED"] ELSE a

\* Animation::Resume
AnimationResume(a) == IF a.state = "PAUSED" THEN [a EXCEPT !.state = "RUNNING"] ELSE a

\* Animation::Tick of a RUNNING animation: the animation afterwards and the
\* value returned
AnimationTick(a, dt) ==
    LET e == a.elapsed + dt IN
    IF e < a.duration
    THEN [animation |-> [a EXCEPT !.elapsed = e, !.ticks = @ + 1],
          result |-> a.duration - e]
    ELSE [animation |-> [a EXCEPT !.elapsed = e, !.state = "COMPLETE",
                                  !.ticks = @ + 1],
          result |-> 0]

\* Animator(mode, looping): the other members at their initialisers
NewAnimatorOf(mode, looping) ==
    [mode |-> mode, looping |-> looping, currentState |-> "IDLE",
     animations |-> <<>>, currentAnimationIndex |-> 0, hasStarted |-> FALSE]

\* Animator::AddAnimation
AddAnimation(A, a) == [A EXCEPT !.animations = Append(@, a)]

\* Animator::StartParallel
StartParallel(A) ==
    [A EXCEPT !.animations = [i \in 1..Len(@) |-> AnimationStart(@[i])],
              !.currentState = "RUNNING"]

\* Animator::StartSequence
StartSequence(A) ==
    [A EXCEPT !.animations[1] = AnimationStart(@),
              !.currentState = "RUNNING"]

\* Animator::Start
AnimatorStart(A) ==
    IF A.animations = <<>> THEN A
    ELSE IF A.mode = "PARALLEL" THEN StartParallel(A)
    ELSE StartSequence(A)

\* Animator::Pause: the animations on which Pause is called
PauseTargets(A) ==
    IF A.currentState = "RUNNING" THEN 1..Len(A.animations) ELSE {}

\* Animator::Pause
AnimatorPause(A) ==
    [A EXCEPT !.animations =
                  [i \in 1..Len(@) |->
                      IF i \in PauseTargets(A) THEN AnimationPause(@[i]) ELSE @[i]],
              !.currentState = "PAUSED"]

\* Animator::Resume: the animations on which Resume is called
ResumeTargets(A) ==
    IF A.currentState = "PAUSED" THEN 1..Len(A.animations) ELSE {}

\* Animator::Resume
AnimatorResume(A) ==
    [A EXCEPT !.animations =
                  [i \in 1..Len(@) |->
                      IF i \in ResumeTargets(A) THEN AnimationResume(@[i]) ELSE @[i]],
              !.currentState = "RUNNING"]

\* The animations after the loop of UpdateParallel: the RUNNING ones ticked.
\* Mutant of TickRunning: Tick is called on every animation.
TickAll(as, dt) == [i \in 1..Len(as) |-> AnimationTick(as[i], dt).animation]

TickRunning(as, dt) ==
    [i \in 1..Len(as) |->
        IF as[i].state = "RUNNING" THEN AnimationTick(as[i], dt).animation
        ELSE as[i]]

\* The flag stillRunning after the loop of UpdateParallel.
StillRunning(as, dt) ==
    \E i \in 1..Len(as) :
        as[i].state = "RUNNING" /\ AnimationTick(as[i], dt).result # 0

\* Mutant of UpdateParallel: the animations are never started again.
UpdateParallelOnce(A, dt) ==
    IF A.currentState # "RUNNING" THEN A
    ELSE [A EXCEPT !.animations = TickRunning(A.animations, dt)]

\* Animator::UpdateParallel
UpdateParallel(A, dt) ==
    IF A.currentState # "RUNNING" THEN A
    ELSE LET ticked == [A EXCEPT !.animations = TickRunning(A.animations, dt)]
         IN  IF ~StillRunning(A.animations, dt) THEN StartParallel(ticked)
             ELSE ticked

\* What reading animations[currentAnimationIndex] beyond the end of the
\* vector may do: the call ends the program, or finds nothing to tick.
BeyondEnd(A) == {[A EXCEPT !.currentState = "crashed"], A}

\* Mutant of SequenceAdvance: the cursor moves on and the animation it
\* comes to is not started.
SequenceAdvanceNoStart(A, next) ==
    IF next >= Len(A.animations)
    THEN IF A.looping
         THEN [A EXCEPT !.currentAnimationIndex = 0]
         ELSE [A EXCEPT !.currentAnimationIndex = next]
    ELSE [A EXCEPT !.currentAnimationIndex = next]

\* Animator::UpdateSequence, once Tick has returned zero: the cursor, now
\* `next`, wraps to zero when looping, the call returns when not, and the
\* animation at the cursor is started.
SequenceAdvance(A, next) ==
    IF next >= Len(A.animations)
    THEN IF A.looping
         THEN [A EXCEPT !.currentAnimationIndex = 0,
                        !.animations[1] = AnimationStart(@)]
         ELSE [A EXCEPT !.currentAnimationIndex = next]
    ELSE [A EXCEPT !.currentAnimationIndex = next,
                   !.animations[next + 1] = AnimationStart(@)]

\* Animator::UpdateSequence: the animators the call may leave.
UpdateSequence(A, dt) ==
    IF A.currentState # "RUNNING" THEN {A}
    ELSE IF A.currentAnimationIndex >= Len(A.animations) THEN BeyondEnd(A)
    ELSE LET k == A.currentAnimationIndex + 1
             cur == A.animations[k]
         IN  IF cur.state # "RUNNING" THEN {A}
             ELSE LET t == AnimationTick(cur, dt)
                      A1 == [A EXCEPT !.animations[k] = t.animation]
                  IN  IF t.result # 0 THEN {A1}
                      ELSE {SequenceAdvance(A1, A.currentAnimationIndex + 1)}

\* Animator::Update: the animators the call may leave.
AnimatorUpdate(A, dt) ==
    IF A.animations = <<>> THEN {A}
    ELSE IF A.mode = "PARALLEL" THEN {UpdateParallel(A, dt)}
    ELSE UpdateSequence(A, dt)

\* A call on the animator: the call and its argument are recorded.
AnimatorCall(fn, arg, A) ==
    /\ ops < env.maxOps
    /\ ops' = ops + 1
    /\ animator' = A
    /\ out' = [fn |-> fn, n |-> ops + 1, val |-> arg]
    /\ UNCHANGED <<forestVars, quit, inputVars, timeVars, pc, stack, env, frame,
                   nevents, log, hist, cancelled, extVars>>

\* std::make_shared<Animator>(mode, looping)
MakeAnimator ==
    /\ animator = NoAnimator
    /\ \E mode \in {"PARALLEL", "SEQUENCE"}, looping \in BOOLEAN :
          AnimatorCall("Animator", 0, NewAnimatorOf(mode, looping))

Constructed == animator # NoAnimator /\ animator.currentState # "crashed"

\* animator->AddAnimation(std::make_shared<Animation>(...))
CallAddAnimation ==
    /\ Constructed
    /\ Len(animator.animations) < env.maxNodes
    /\ \E d \in Durations :
          AnimatorCall("AddAnimation", d, AddAnimation(animator, NewAnimation(d)))

\* animator->Start()
CallStart ==
    /\ Constructed
    /\ AnimatorCall("Start", 0, AnimatorStart(animator))

\* animator->Pause()
CallPause ==
    /\ Constructed
    /\ AnimatorCall("Pause", PauseTargets(animator), AnimatorPause(animator))

\* animator->Resume()
CallResume ==
    /\ Constructed
    /\ AnimatorCall("Resume", ResumeTargets(animator), AnimatorResume(animator))

\* animator->Update(deltaTime)
CallUpdate ==
    /\ Constructed
    /\ \E dt \in TickTimes : \E A \in AnimatorUpdate(animator, dt) :
          AnimatorCall("Update", dt, A)

\* animator->SetIsLooping(looping)
CallSetIsLooping ==
    /\ Constructed
    /\ \E looping \in BOOLEAN :
          AnimatorCall("SetIsLooping", looping, [animator EXCEPT !.looping = looping])

InitAnimator ==
    /\ InitProgram
    /\ env = [maxNodes |-> MaxAnimations, maxFrames |-> 0,
              maxOps |-> MaxAnimatorCalls + 1, maxEvents |-> 0,
              alphabet |-> {}, deltaTimes |-> SlowFrames]

NextAnimator ==
    \/ MakeAnimator
    \/ CallAddAnimation
    \/ CallStart
    \/ CallPause
    \/ CallResume
    \/ CallUpdate
    \/ CallSetIsLooping

SpecAnimator == InitAnimator /\ [][NextAnimator]_vars

\* The step is a call of Update on a RUNNING animator in PARALLEL mode.
ParallelUpdateStep ==
    /\ out' # out
    /\ out'.fn = "Update"
    /\ animator.mode = "PARALLEL"
    /\ animator.currentState = "RUNNING"
    /\ animator.animations # <<>>

\* Animation a has no time left once this Update has ticked it.
CompletedBy(a, dt) ==
    \/ a.state = "COMPLETE"
    \/ a.state = "RUNNING" /\ a.elapsed + dt >= a.duration

\* Animation a is ticked by this Update and has time left afterwards.
RemainingAfter(a, dt) == a.state = "RUNNING" /\ a.elapsed + dt < a.duration

\* Animation a as this Update leaves it when it is not started again.
Advanced(a, dt) ==
    IF a.state # "RUNNING" THEN a
    ELSE [a EXCEPT !.elapsed = a.elapsed + dt,
                   !.ticks = @ + 1,
                   !.state = IF a.elapsed + dt < a.duration THEN "RUNNING"
                             ELSE "COMPLETE"]

\* C20: in PARALLEL mode, whatever the looping flag, an Update of a RUNNING
\* animator that leaves every child animation completed starts them all
\* again: right after it every child is RUNNING and so is the animator;
\* an Update after which a child still has time left starts no child again.
C20_ParallelRestarts ==
    [][ParallelUpdateStep =>
          LET as == animator.animations
              dt == out'.val
              I == 1..Len(as)
          IN  /\ (\A i \in I : CompletedBy(as[i], dt)) =>
                    /\ \A i \in I : animator'.animations[i].state = "RUNNING"
                    /\ animator'.currentState = "RUNNING"
              /\ (\E i \in I : RemainingAfter(as[i], dt)) =>
                    \A i \in I : animator'.animations[i] = Advanced(as[i], dt)]_vars

\* Update has just started both animations of a PARALLEL animator that does
\* not loop again; they have different durations, so one of them had
\* completed in an earlier Update.
C20_Witness ==
    /\ out.fn = "Update"
    /\ animator.mode = "PARALLEL"
    /\ ~animator.looping
    /\ animator.currentState = "RUNNING"
    /\ Len(animator.animations) = 2
    /\ animator.animations[1].duration # animator.animations[2].duration
    /\ \A i \in 1..2 :
          /\ animator.animations[i].state = "RUNNING"
          /\ animator.animations[i].elapsed = 0


\* The step is a call of Update on an animator in SEQUENCE mode that holds
\* animations.
SequenceUpdateStep ==
    /\ out' # out
    /\ out'.fn = "Update"
    /\ animator.mode = "SEQUENCE"
    /\ animator.animations # <<>>

\* The Update step starts animation i: it is RUNNING at elapsed zero
\* afterwards and was not before.
StartedIn(i) ==
    /\ animator'.animations[i].state = "RUNNING"
    /\ animator'.animations[i].elapsed = 0
    /\ animator.animations[i] # animator'.animations[i]

\* C21: in SEQUENCE mode without looping, every Update that leaves the last
\* animation completed leaves the cursor at the last index (the number of
\* animations minus one) and starts no animation.
C21_SequenceStops ==
    [][(SequenceUpdateStep /\ ~animator.looping) =>
          LET n == Len(animator.animations) IN
          animator'.animations[n].state = "COMPLETE" =>
              /\ animator'.currentAnimationIndex = n - 1
              /\ \A i \in 1..n : ~StartedIn(i)]_vars


\* The animation at the cursor is ticked by this Update and completes.
CurrentCompletes ==
    /\ animator.currentState = "RUNNING"
    /\ animator.currentAnimationIndex < Len(animator.animations)
    /\ LET cur == animator.animations[animator.currentAnimationIndex + 1]
       IN  cur.state = "RUNNING" /\ cur.elapsed + out'.val >= cur.duration

\* Animation i is RUNNING from elapsed zero after the step.
FreshAfter(i) ==
    /\ animator'.animations[i].state = "RUNNING"
    /\ animator'.animations[i].elapsed = 0

\* C22: in SEQUENCE mode, an Update in which the animation at the cursor
\* completes moves the cursor on by one and starts the next animation if
\* there is one, and sets the cursor to zero and starts animation 0 if
\* there is none and looping is set; an Update in which the animation at
\* the cursor does not complete leaves the cursor where it is.
C22_SequenceAdvances ==
    [][SequenceUpdateStep =>
          LET n == Len(animator.animations)
              c == animator.currentAnimationIndex
          IN  /\ (CurrentCompletes /\ c + 1 < n) =>
                    /\ animator'.currentAnimationIndex = c + 1
                    /\ FreshAfter(c + 2)
              /\ (CurrentCompletes /\ c + 1 = n /\ animator.looping) =>
                    /\ animator'.currentAnimationIndex = 0
                    /\ FreshAfter(1)
              /\ ~CurrentCompletes => animator'.currentAnimationIndex = c]_vars

\* Update has completed the first animation of a sequence of two: the
\* cursor is at the second, which has just been started.
C22_Witness ==
    /\ out.fn = "Update"
    /\ animator.mode = "SEQUENCE"
    /\ Len(animator.animations) = 2
    /\ animator.currentAnimationIndex = 1
    /\ animator.animations[1].state = "COMPLETE"
    /\ animator.animations[2].state = "RUNNING"
    /\ animator.animations[2].elapsed = 0

\* Update has completed the last animation of a looping sequence of two:
\* the cursor is back at the first, which has just been started.
SequenceWrapped ==
    /\ out.fn = "Update"
    /\ animator.mode = "SEQUENCE"
    /\ animator.looping
    /\ Len(animator.animations) = 2
    /\ animator.currentAnimationIndex = 0
    /\ animator.animations[2].state = "COMPLETE"
    /\ animator.animations[1].state = "RUNNING"
    /\ animator.animations[1].elapsed = 0


\* The step is the call fn on an animator that holds animations.
AnimatorStep(fn) ==
    /\ out' # out
    /\ out'.fn = fn
    /\ animator # NoAnimator
    /\ animator.animations # <<>>

\* C23: in both modes, Pause calls Pause on every animation and leaves the
\* animator PAUSED, Resume calls Resume on every animation and leaves the
\* animator RUNNING, and an Update of a PAUSED animator changes no
\* animation and not the cursor.
C23_PauseResumeBroadcast ==
    [][/\ AnimatorStep("Pause") =>
             /\ out'.val = 1..Len(animator.animations)
             /\ animator'.currentState = "PAUSED"
       /\ AnimatorStep("Resume") =>
             /\ out'.val = 1..Len(animator.animations)
             /\ animator'.currentState = "RUNNING"
       /\ (AnimatorStep("Update") /\ animator.currentState = "PAUSED") =>
             animator' = animator]_vars

\* What the code does: Pause reaches the animations only from RUNNING,
\* Resume only from PAUSED; the state is set in any case, and a PAUSED
\* animator's Update changes nothing.
PauseResumeFromState ==
    [][/\ AnimatorStep("Pause") =>
             /\ out'.val = (IF animator.currentState = "RUNNING"
                            THEN 1..Len(animator.animations) ELSE {})
             /\ animator'.currentState = "PAUSED"
       /\ AnimatorStep("Resume") =>
             /\ out'.val = (IF animator.currentState = "PAUSED"
                            THEN 1..Len(animator.animations) ELSE {})
             /\ animator'.currentState = "RUNNING"
       /\ (AnimatorStep("Update") /\ animator.currentState = "PAUSED") =>
             animator' = animator]_vars

---------------------------------------------------------------------------
(* Startup: the Game is constructed, and main() uses it                    *)

SetupNodes == 2
SetupFrames == 2
MaxSetupEvents == 1

\* auto game = std::make_unique<Game>();  Game::Game() { Setup(); }
\* Whatever Setup returns, the constructor returns normally: the value is
\* dropped, and main() begins.
GameGame ==
    /\ pc = "static"
    /\ \E oc \in SdlOutcomes : sdl' = Setup(sdl, oc)
    /\ pc' = "main"
    /\ UNCHANGED <<forestVars, quit, inputVars, timeVars, stack, env, frame,
                   ops, nevents, log, hist, cancelled, animator, out, txt, pong>>

\* main(): game->SetTitle("Pong Demo"), that is SDL_SetWindowTitle(window, name).
SetTitle ==
    /\ pc = "main"
    /\ "SDL_SetWindowTitle" \notin sdl.calls
    /\ sdl' = [sdl EXCEPT !.calls = @ \cup {"SDL_SetWindowTitle"}]
    /\ UNCHANGED <<forestVars, quit, inputVars, timeVars, pc, stack, env, frame,
                   ops, nevents, log, hist, cancelled, animator, out, txt, pong>>

\* Game::~Game: what it releases, in the order of its statements.
Teardown ==
    <<"children.clear", "SDL_DestroyWindow", "SDL_DestroyRenderer",
      "ClearAudioCache", "ClearFontCache", "CleanupFontInits",
      "ClearTextureCache", "SDL_Quit">>

\* main() has returned: the Game is destroyed.
GameDtor ==
    /\ pc = "exit"
    /\ pc' = "destroyed"
    /\ children' = [children EXCEPT ![TheGame] = <<>>]
    /\ sdl' = [sdl EXCEPT !.window = "destroyed", !.renderer = "destroyed",
                          !.init = FALSE, !.released = Teardown]
    /\ UNCHANGED <<count, made, obj, quit, inputVars, timeVars, stack, env, frame,
                   ops, nevents, log, hist, cancelled, animator, out, txt, pong>>

InitSetup ==
    /\ InitFields
    /\ pc = "static"
    /\ sdl = NoSdl
    /\ env = [maxNodes |-> SetupNodes, maxFrames |-> SetupFrames, maxOps |-> 0,
              maxEvents |-> MaxSetupEvents, alphabet |-> QuitEvents,
              deltaTimes |-> SlowFrames]

NextSetup ==
    \/ GameGame
    \/ SetTitle
    \/ MainAddChildObject
    \/ Run
    \/ Loop
    \/ RunReturn
    \/ HandleInput
    \/ GameUpdate
    \/ InternalUpdate
    \/ GameFixedUpdate
    \/ InternalFixedUpdate
    \/ GameRender
    \/ Render
    \/ GameDestroyChildObjects
    \/ DestroyChildObjects
    \/ LoopEnd
    \/ GameDtor

SpecSetup == InitSetup /\ [][NextSetup]_vars

\* Setup returns false exactly when one of the three SDL calls fails, and
\* then the Game lacks the renderer.
SetupReportsFailure ==
    sdl.setup # "none" => (sdl.setup = "false" <=> sdl.renderer = "nullptr")

\* C24: on a Game whose Setup returned false, startup is aborted: no frame
\* of Run is executed and no SDL function is handed the window or the
\* renderer.
C24_SetupFailureAborts ==
    sdl.setup = "false" => /\ frame = 0
                           /\ sdl.calls = {}

---------------------------------------------------------------------------
(* TextRenderObject (include/Handcrank/TextRenderObject.hpp)               *)

MaxTextCalls == 4

Texts == {"a", "b"}

\* The surfaces TTF_RenderText_Blended may return: their sizes.
Surfaces == {[kind |-> "surface", w |-> 1, h |-> 1],
             [kind |-> "surface", w |-> 2, h |-> 1]}

NullSurface == [kind |-> "nullptr"]

Crash == [kind |-> "crash"]

\* The ways a TextRenderObject is constructed: T() (as std::make_shared<T>()
\* does), T t; or new T, T(x, y), T(x, y, w, h).
CtorForms == {"value", "default", "xy", "xywh"}

\* TTF_Font *font; and const char *text; have no initialiser and no
\* constructor sets them.  Value-initialisation zeroes them, as the default
\* constructor is defaulted on its declaration; after every other
\* construction they are indeterminate: nullptr, or whatever the storage held.
FontAfter(form) == IF form = "value" THEN {"nullptr"} ELSE {"nullptr", "indeterminate"}

TextAfter(form) == IF form = "value" THEN {"nullptr"} ELSE {"nullptr", "indeterminate"}

\* A TextRenderObject after construction; assigned: SetFont, LoadFont or
\* LoadFontRW has been called on it.
NewText(form, font, text) ==
    [font |-> font, assigned |-> FALSE, text |-> text,
     textSurface |-> NullSurface, textTexture |-> "nullptr",
     rect |-> IF form = "xywh" THEN [w |-> 1, h |-> 1] ELSE [w |-> 0, h |-> 0]]

\* TextRenderObject::SetFont, LoadFont and LoadFontRW (LoadCachedFont
\* returns nullptr when the font cannot be opened).
SetFont(T, font) == [T EXCEPT !.font = font, !.assigned = TRUE]

\* What TTF_RenderText_Blended[_Wrapped] may do with the font: with a font,
\* a surface or nullptr; with an indeterminate pointer anything, the end of
\* the process included.
RenderTextOutcomes(font) ==
    IF font = "font" THEN Surfaces \cup {NullSurface}
    ELSE Surfaces \cup {NullSurface, Crash}

\* TextRenderObject::SetText and SetWrappedText(const char *): the object
\* afterwards and how the call ends, when TTF_RenderText_Blended[_Wrapped]
\* yields r.
SetText(T, text, r) ==
    IF T.font = "nullptr"
    THEN [obj |-> T, val |-> "Missing font reference"]
    ELSE LET Freed == [T EXCEPT !.text = text, !.textTexture = "nullptr",
                                !.textSurface = NullSurface] IN
         IF r.kind = "crash" THEN [obj |-> Freed, val |-> "crash"]
         ELSE IF r.kind = "nullptr"
         THEN [obj |-> Freed, val |-> "Failed to generate text surface"]
         ELSE [obj |-> [Freed EXCEPT !.textSurface = r,
                                     !.rect = [w |-> r.w, h |-> r.h]],
               val |-> "returns"]

\* TextRenderObject::Render: the texture is made of the surface.
RenderText(T) ==
    IF T.textTexture = "nullptr" /\ T.textSurface # NullSurface
    THEN [T EXCEPT !.textTexture = "texture"]
    ELSE T

TextCall(fn, T, val) ==
    /\ txt # NoText
    /\ IF out.fn = "none" THEN TRUE ELSE out.val # "crash"
    /\ ops < env.maxOps
    /\ ops' = ops + 1
    /\ txt' = T
    /\ out' = [fn |-> fn, n |-> ops + 1, val |-> val]
    /\ UNCHANGED <<forestVars, quit, inputVars, timeVars, pc, stack, env, frame,
                   nevents, log, hist, cancelled, animator, sdl, pong>>

MakeText ==
    /\ txt = NoText
    /\ \E form \in CtorForms : \E f \in FontAfter(form) : \E t \in TextAfter(form) :
          txt' = NewText(form, f, t)
    /\ UNCHANGED <<forestVars, quit, inputVars, timeVars, pc, stack, env, frame,
                   ops, nevents, log, hist, cancelled, animator, out, sdl, pong>>

CallSetFont ==
    \E f \in {"nullptr", "font"} : TextCall("SetFont", SetFont(txt, f), f)

CallSetText ==
    \E t \in Texts : \E r \in RenderTextOutcomes(txt.font) :
        LET R == SetText(txt, t, r) IN TextCall("SetText", R.obj, R.val)

CallSetWrappedText ==
    \E t \in Texts : \E r \in RenderTextOutcomes(txt.font) :
        LET R == SetText(txt, t, r) IN TextCall("SetWrappedText", R.obj, R.val)

CallRenderText == TextCall("Render", RenderText(txt), "returns")

InitText ==
    /\ InitProgram
    /\ env = [maxNodes |-> 0, maxFrames |-> 0, maxOps |-> MaxTextCalls,
              maxEvents |-> 0, alphabet |-> {}, deltaTimes |-> {}]

NextText ==
    \/ MakeText
    \/ CallSetFont
    \/ CallSetText
    \/ CallSetWrappedText
    \/ CallRenderText

SpecText == InitText /\ [][NextText]_vars

\* SetText or SetWrappedText is called on the TextRenderObject.
SetTextStep ==
    /\ txt # NoText
    /\ out' # out
    /\ out'.fn \in {"SetText", "SetWrappedText"}

\* When the font is the null pointer, the call throws and changes nothing.
NullFontThrows ==
    [][(SetTextStep /\ txt.font = "nullptr") =>
          /\ out'.val = "Missing font reference"
          /\ txt' = txt]_vars

\* C25: SetText or SetWrappedText on a TextRenderObject to which no font
\* has been assigned fails with the error of the missing font and leaves
\* the text, the surface, the texture and the rect as they were.
C25_NoFontFails ==
    [][(SetTextStep /\ ~txt.assigned) =>
          /\ out'.val = "Missing font reference"
          /\ txt' = txt]_vars

---------------------------------------------------------------------------
(* The input snapshot: raw events arrive and the hooks call the API        *)

SnapshotNodes == 2
SnapshotFrames == 2
SnapshotOps == 1
MaxSnapshotEvents == 2

InitSnapshot ==
    /\ InitProgram
    /\ env = [maxNodes |-> SnapshotNodes, maxFrames |-> SnapshotFrames,
              maxOps |-> SnapshotOps, maxEvents |-> MaxSnapshotEvents,
              alphabet |-> KeyEvents \cup ButtonEvents \cup LeaveEvents,
              deltaTimes |-> SlowFrames]

SpecSnapshot == InitSnapshot /\ [][Next]_vars

\* What the queries IsKeyDown, IsKeyPressed, IsKeyReleased, IsMouseButtonDown,
\* IsMouseButtonPressed, IsMouseButtonReleased and GetMousePosition answer.
Snapshot ==
    [keyDown |-> [k \in Keys |-> IsKeyDown(k)],
     keyPressed |-> [k \in Keys |-> IsKeyPressed(k)],
     keyReleased |-> [k \in Keys |-> IsKeyReleased(k)],
     buttonDown |-> [b \in Buttons |-> IsMouseButtonDown(b)],
     buttonPressed |-> [b \in Buttons |-> IsMouseButtonPressed(b)],
     buttonReleased |-> [b \in Buttons |-> IsMouseButtonReleased(b)],
     position |-> GetMousePosition]

\* The number of events of the type for the button among evs.
NumOfButton(evs, type, b) ==
    Cardinality({i \in 1..Len(evs) : evs[i].type = type /\ evs[i].button = b})

\* C26: no step but HandleInput changes the answer of a query, whatever the
\* hooks do; and after HandleInput an edge is set only if an event of the
\* kind was drained by this HandleInput: the edges of the frame before are
\* gone.
C26_InputSnapshot ==
    [][/\ pc # "HandleInput" => Snapshot' = Snapshot
       /\ pc = "HandleInput" =>
            /\ \A k \in Keys :
                 /\ IsKeyPressed(k)' => NumOf(hist'.drained, "SDL_KEYDOWN", k) > 0
                 /\ IsKeyReleased(k)' => NumOf(hist'.drained, "SDL_KEYUP", k) > 0
            /\ \A b \in Buttons :
                 /\ IsMouseButtonPressed(b)' =>
                        NumOfButton(hist'.drained, "SDL_MOUSEBUTTONDOWN", b) > 0
                 /\ IsMouseButtonReleased(b)' =>
                        NumOfButton(hist'.drained, "SDL_MOUSEBUTTONUP", b) > 0]_vars

\* In the second iteration, after a hook has called the API: the key and the
\* button went down in the first iteration and nothing arrived since; they
\* are still down and their edges are cleared.
C26_Witness ==
    /\ frame = 2
    /\ pc = "DestroyChildObjects"
    /\ ops > 0
    /\ hist.drained = <<>>
    /\ \E k \in Keys : IsKeyDown(k) /\ ~IsKeyPressed(k)
    /\ \E b \in Buttons : IsMouseButtonDown(b) /\ ~IsMouseButtonPressed(b)

---------------------------------------------------------------------------
(* The threshold of the fixed update                                       *)

\* Game::FixedUpdate begins.
FixedUpdateBegins == pc = "FixedUpdate" /\ stack = <<>>

\* The step of FixedUpdateBegins enters the loop over the children.
WalkInvoked == pc' = "FixedUpdate" /\ stack' # <<>>

\* The walk is invoked exactly when the accumulator exceeds the fixed step.
WalkWhenAbove ==
    [][FixedUpdateBegins =>
          (WalkInvoked <=> fixedUpdateDeltaTime + deltaTime > fixedFrameTime)]_vars

\* C27: the fixed-update walk is invoked in a frame exactly when the
\* accumulator, after the frame's delta time has been added, is greater
\* than or equal to the fixed step.
C27_FixedStepThreshold ==
    [][FixedUpdateBegins =>
          (WalkInvoked <=> fixedUpdateDeltaTime + deltaTime >= fixedFrameTime)]_vars

---------------------------------------------------------------------------
(* Which animations an Animator starts and ticks                           *)

\* Tick is called on animation i in this step.
TickCalled(i) == animator'.animations[i].ticks # animator.animations[i].ticks

\* Start or Update is called on an Animator without animations.
EmptyStep ==
    /\ out' # out
    /\ out'.fn \in {"Start", "Update"}
    /\ animator # NoAnimator
    /\ animator.animations = <<>>

\* C28: in SEQUENCE mode Start calls Start on the first animation and on no
\* other, and Update calls Tick on no animation but the one at the cursor;
\* in both modes Update calls Tick only on animations that are RUNNING; and
\* Start and Update of an Animator without animations change nothing.
C28_OnlyCursorTicks ==
    [][/\ (AnimatorStep("Start") /\ animator.mode = "SEQUENCE") =>
            /\ animator'.animations[1] = AnimationStart(animator.animations[1])
            /\ \A i \in 2..Len(animator.animations) :
                  animator'.animations[i] = animator.animations[i]
       /\ (AnimatorStep("Update") /\ animator.mode = "SEQUENCE") =>
            \A i \in 1..Len(animator.animations) :
                TickCalled(i) => i = animator.currentAnimationIndex + 1
       /\ AnimatorStep("Update") =>
            \A i \in 1..Len(animator.animations) :
                TickCalled(i) => animator.animations[i].state = "RUNNING"
       /\ EmptyStep => animator' = animator]_vars

\* A sequence of two animations was started and updated: the first has been
\* ticked and the second has not.
C28_Witness ==
    /\ animator # NoAnimator
    /\ animator.mode = "SEQUENCE"
    /\ out.fn = "Update"
    /\ Len(animator.animations) = 2
    /\ animator.animations[1].ticks = 1
    /\ animator.animations[2].ticks = 0
    /\ animator.animations[2].state = "IDLE"

\* Start was called on an Animator without animations, which is IDLE.
EmptyStartIdle ==
    /\ animator # NoAnimator
    /\ out.fn = "Start"
    /\ animator.animations = <<>>
    /\ animator.currentState = "IDLE"

---------------------------------------------------------------------------
(* Teardown                                                                *)

\* The place of a call among those of the destructor.
ReleasedAt(call) == CHOOSE i \in 1..Len(sdl.released) : sdl.released[i] = call

\* The nodes are released before anything else and SDL_Quit comes last.
TeardownEnds ==
    pc = "destroyed" =>
        /\ children[TheGame] = <<>>
        /\ sdl.released[1] = "children.clear"
        /\ sdl.released[Len(sdl.released)] = "SDL_Quit"

\* C29: the destructor of the Game releases the nodes first, the cached
\* textures before the renderer they were made with, the renderer before
\* its window, and shuts SDL down last.
C29_TeardownOrder ==
    pc = "destroyed" =>
        /\ children[TheGame] = <<>>
        /\ sdl.released[1] = "children.clear"
        /\ ReleasedAt("ClearTextureCache") < ReleasedAt("SDL_DestroyRenderer")
        /\ ReleasedAt("SDL_DestroyRenderer") < ReleasedAt("SDL_DestroyWindow")
        /\ sdl.released[Len(sdl.released)] = "SDL_Quit"

---------------------------------------------------------------------------
(* The cursor of a sequence                                                *)

\* Update reaches the read of animations[currentAnimationIndex] in
\* UpdateSequence: the animator is a RUNNING sequence with animations.
CursorRead == SequenceUpdateStep /\ animator.currentState = "RUNNING"

\* The cursor never exceeds the number of animations.
CursorAtMostSize ==
    animator # NoAnimator =>
        animator.currentAnimationIndex <= Len(animator.animations)

\* C30: whenever UpdateSequence reads animations[currentAnimationIndex] the
\* cursor is an index of the vector: it is less than the number of
\* animations (it is unsigned, so it is never below zero).
C30_CursorInRange ==
    [][CursorRead =>
          animator.currentAnimationIndex < Len(animator.animations)]_vars

---------------------------------------------------------------------------
(* Start before the other traversals                                       *)

\* The hooks and calls of the fixed-update and render traversals.
LaterCalls == {"FixedUpdate", "Render", "culled"}

\* Every node ticked by the variable update has had Start by the end of
\* its tick.
StartedWhenTicked ==
    \A i \in 1..Len(log) : log[i].ev = "Update" => obj[log[i].n].hasStarted

\* C31: a node on which FixedUpdate or Render is called has had its Start
\* hook, also when a hook added or enabled it after the variable update of
\* the iteration had passed its place.
C31_StartBeforeFixedAndRender ==
    \A i \in 1..Len(log) :
        log[i].ev \in LaterCalls => hist.startCount[log[i].n] = 1

---------------------------------------------------------------------------
(* OnDestroy of the nodes that leave the forest                            *)

\* The number of OnDestroy calls on node n so far.
OnDestroyCalls(n) == Cardinality(Positions(hist.destroyOrder, n))

\* OnDestroy is called at most once on a node, and only on a marked node.
OnDestroyAtMostOnce ==
    \A n \in Nodes :
        /\ OnDestroyCalls(n) <= 1
        /\ OnDestroyCalls(n) = 1 => HasBeenMarkedForDestroy(obj, n)

\* C32: every node that has left the forest in a sweep has had OnDestroy
\* exactly once, also a node added under a parent on which Destroy() had
\* been called.
C32_OnDestroyBeforeLeaving ==
    \A n \in hist.removed : OnDestroyCalls(n) = 1

---------------------------------------------------------------------------
(* The pressed edge when DOWN is delivered more than once                  *)

\* A key or button that is up gets exactly one DOWN and no UP in the input
\* phase: it is pressed afterwards.
PressedEdgeOfOneDown ==
    [][pc = "HandleInput" =>
          /\ \A k \in Keys :
                (/\ ~IsKeyDown(k)
                 /\ NumOf(hist'.drained, "SDL_KEYDOWN", k) = 1
                 /\ NumOf(hist'.drained, "SDL_KEYUP", k) = 0) => IsKeyPressed(k)'
          /\ \A b \in Buttons :
                (/\ ~IsMouseButtonDown(b)
                 /\ NumOfButton(hist'.drained, "SDL_MOUSEBUTTONDOWN", b) = 1
                 /\ NumOfButton(hist'.drained, "SDL_MOUSEBUTTONUP", b) = 0) =>
                    IsMouseButtonPressed(b)']_vars

\* C33: a key or button that is up when the input phase begins and gets
\* one or more DOWN events and no UP event in it is pressed in that frame.
C33_PressedEdgeOfRepeatedDown ==
    [][pc = "HandleInput" =>
          /\ \A k \in Keys :
                (/\ ~IsKeyDown(k)
                 /\ NumOf(hist'.drained, "SDL_KEYDOWN", k) >= 1
                 /\ NumOf(hist'.drained, "SDL_KEYUP", k) = 0) => IsKeyPressed(k)'
          /\ \A b \in Buttons :
                (/\ ~IsMouseButtonDown(b)
                 /\ NumOfButton(hist'.drained, "SDL_MOUSEBUTTONDOWN", b) >= 1
                 /\ NumOfButton(hist'.drained, "SDL_MOUSEBUTTONUP", b) = 0) =>
                    IsMouseButtonPressed(b)']_vars

---------------------------------------------------------------------------
(* The Animator as a node: the engine ticks it                             *)

\* RenderObject::InternalUpdate on an Animator, which overrides Start and
\* Update: Start at the first tick, then Update(deltaTime).
AnimatorInternalUpdate(A, dt) ==
    AnimatorUpdate(IF A.hasStarted THEN A
                   ELSE [AnimatorStart(A) EXCEPT !.hasStarted = TRUE], dt)

\* The variable update reaches the animator.
TickAnimator ==
    /\ Constructed
    /\ \E dt \in TickTimes : \E A \in AnimatorInternalUpdate(animator, dt) :
          AnimatorCall("InternalUpdate", dt, A)

\* The program constructs the animator, adds animations, pauses and resumes
\* it; Start and Update are called by the engine only.
NextAnimatorNode ==
    \/ MakeAnimator
    \/ CallAddAnimation
    \/ CallPause
    \/ CallResume
    \/ CallSetIsLooping
    \/ TickAnimator

SpecAnimatorNode == InitAnimator /\ [][NextAnimatorNode]_vars

\* A call other than Resume is made on a PAUSED animator.
PausedStep ==
    /\ out' # out
    /\ out'.fn # "Resume"
    /\ animator # NoAnimator
    /\ animator.currentState = "PAUSED"

\* The step leaves the animator PAUSED and its animations as they were.
StaysPaused ==
    /\ animator'.currentState = "PAUSED"
    /\ \A i \in 1..Len(animator.animations) :
          animator'.animations[i] = animator.animations[i]

\* An animator paused after its first tick stays PAUSED, and nothing is
\* ticked or started, until Resume.
PausedAfterStartStays ==
    [][(PausedStep /\ animator.hasStarted) => StaysPaused]_vars

\* C34: a paused animator stays PAUSED, and none of its animations is
\* ticked or started, until Resume is called, also when it was paused
\* before its first tick; and Resume on an animator that was never started
\* starts no animation and does not make the animator RUNNING.
C34_PausedUntilResume ==
    [][/\ PausedStep => StaysPaused
       /\ (AnimatorStep("Resume") /\ ~animator.hasStarted) =>
             /\ animator'.currentState # "RUNNING"
             /\ animator'.animations = animator.animations]_vars

---------------------------------------------------------------------------
(* Animator::IsLooping                                                     *)

\* enum class Mode : uint8_t { PARALLEL, SEQUENCE }: the values.
ModeValue(mode) == IF mode = "PARALLEL" THEN 0 ELSE 1

\* Animator::IsLooping: declared to return Mode, it returns mode.
IsLooping(A) == A.mode

\* Animator::SetMode
SetMode(A, mode) == [A EXCEPT !.mode = mode]

\* The value of IsLooping() where a truth value is wanted: a Mode converts
\* through its underlying integer, and nonzero is true.
AsBool(mode) == ModeValue(mode) # 0

\* animator->SetMode(mode)
CallSetMode ==
    /\ Constructed
    /\ \E mode \in {"PARALLEL", "SEQUENCE"} :
          AnimatorCall("SetMode", mode, SetMode(animator, mode))

\* animator->IsLooping()
CallIsLooping ==
    /\ Constructed
    /\ AnimatorCall("IsLooping", IsLooping(animator), animator)

NextLooping ==
    \/ MakeAnimator
    \/ CallAddAnimation
    \/ CallSetIsLooping
    \/ CallSetMode
    \/ CallIsLooping

SpecLooping == InitAnimator /\ [][NextLooping]_vars

\* IsLooping() returns the mode.
IsLoopingReportsMode ==
    out.fn = "IsLooping" => out.val = animator.mode

\* C35: IsLooping() reports the looping flag, as set by the constructor or
\* by SetIsLooping, for both values and both modes; SetMode, which leaves
\* the flag alone, therefore does not change it.
C35_IsLoopingReportsFlag ==
    out.fn = "IsLooping" => AsBool(out.val) = animator.looping

---------------------------------------------------------------------------
(* Pong (src/main.cpp): the ball and the paddles                           *)

MaxPongSteps == 6

size == 35
startingMovementSpeed == 400
movementSpeedStep == 25
minX == 0
minY == 0
paddleMovementSpeed == 1000
paddleHeight == 300

\* Positions are counted in quarters of a pixel: a speed is a multiple of
\* movementSpeedStep pixels per second and a delta time a multiple of 10 ms
\* (100 to the second), so every displacement is a whole number of them.
PerPixel == 100 \div movementSpeedStep

\* speed * direction * deltaTime, in quarters of a pixel
Displacement(speed, direction, dt) == (speed * direction * dt) \div movementSpeedStep

\* The delta times of Pong's frames: 10 ms, and a frame of one second.
PongTimes == {1, 100}

\* SDL_GL_GetDrawableSize in Game::SetScreenSize: the drawable is the
\* window, or twice the window on a high-DPI display.
DpiScales == {1, 2}

PongKeys == {"SDLK_w", "SDLK_s", "SDLK_UP", "SDLK_DOWN"}

\* Mutant of Clamp: the upper bound is not applied.
ClampBelow(v, lo, hi) == IF v < lo THEN lo ELSE v

\* std::clamp<float>(v, lo, hi), with lo <= hi
Clamp(v, lo, hi) == IF v < lo THEN lo ELSE IF hi < v THEN hi ELSE v

\* std::make_shared<Ball>(): the rect of RenderObject's default constructor
\* and the member initialisers of Ball; x and y in quarters of a pixel.
NewBall ==
    [hasStarted |-> FALSE, x |-> 0, y |-> 0,
     w |-> DEFAULT_RECT_WIDTH, h |-> DEFAULT_RECT_HEIGHT,
     xDirection |-> 1, yDirection |-> -1,
     movementSpeed |-> startingMovementSpeed, maxX |-> 0, maxY |-> 0]

\* std::make_shared<LeftPaddle>(), std::make_shared<RightPaddle>()
NewPaddle ==
    [hasStarted |-> FALSE, x |-> 0, y |-> 0,
     w |-> DEFAULT_RECT_WIDTH, h |-> DEFAULT_RECT_HEIGHT]

\* Ball::Reset
BallReset(B) ==
    [B EXCEPT !.xDirection = -@,
              !.x = (B.maxX \div 2) * PerPixel,
              !.y = (B.maxY \div 2) * PerPixel,
              !.movementSpeed = startingMovementSpeed]

\* Ball::ChangeDirection
BallChangeDirection(B) ==
    [B EXCEPT !.xDirection = -@, !.movementSpeed = @ + movementSpeedStep]

\* Ball::Start in a window of the given size
BallStart(B, width, height) ==
    BallReset([B EXCEPT !.hasStarted = TRUE, !.x = 0, !.y = 0,
                        !.w = size, !.h = size,
                        !.maxX = width - size, !.maxY = height - size])

\* Ball::Update
BallUpdate(B, hasFocus, dt) ==
    IF ~hasFocus THEN B
    ELSE LET x == B.x + Displacement(B.movementSpeed, B.xDirection, dt)
             y == B.y + Displacement(B.movementSpeed, B.yDirection, dt)
         IN  [B EXCEPT
                !.xDirection = IF x > B.maxX * PerPixel \/ x < minX * PerPixel
                               THEN -@ ELSE @,
                !.yDirection = IF y > B.maxY * PerPixel \/ y < minY * PerPixel
                               THEN -@ ELSE @,
                !.x = Clamp(x, minX * PerPixel, B.maxX * PerPixel),
                !.y = Clamp(y, minY * PerPixel, B.maxY * PerPixel)]

\* Paddle::Start
PaddleStart(P, height) ==
    [P EXCEPT !.hasStarted = TRUE, !.w = size, !.h = paddleHeight,
              !.x = 0,
              !.y = (height \div 2) * PerPixel - (paddleHeight * PerPixel) \div 2]

\* LeftPaddle::Start
LeftPaddleStart(P, height) ==
    [PaddleStart(P, height) EXCEPT !.x = size * PerPixel]

\* RightPaddle::Start
RightPaddleStart(P, width, height) ==
    [PaddleStart(P, height) EXCEPT !.x = (width - size - size) * PerPixel]

\* LeftPaddle::Update and RightPaddle::Update, with the state of the key
\* that moves the paddle up and of the key that moves it down
PaddleUpdate(P, height, hasFocus, up, down, dt) ==
    IF ~hasFocus THEN P
    ELSE LET d == Displacement(paddleMovementSpeed, 1, dt)
             y == IF up THEN P.y - d ELSE IF down THEN P.y + d ELSE P.y
         IN  [P EXCEPT !.y = Clamp(y, 0, (height - P.h) * PerPixel)]

\* A call of a hook or a callback of Pong; the call is recorded.
PongCall(fn, arg, P) ==
    /\ ops < env.maxOps
    /\ ops' = ops + 1
    /\ pong' = P
    /\ out' = [fn |-> fn, n |-> ops + 1, val |-> arg]
    /\ UNCHANGED <<forestVars, quit, inputVars, timeVars, pc, stack, env, frame,
                   nevents, log, hist, cancelled, animator, sdl, txt>>

\* GameManager::Start: the objects are made and added; the window has the
\* size Setup gave it and the Game has no focus yet.
GameManagerStart ==
    /\ ~pong.made
    /\ \E dpi \in DpiScales :
          PongCall("GameManager::Start", dpi,
                   [made |-> TRUE,
                    width |-> DEFAULT_WINDOW_WIDTH * dpi,
                    height |-> DEFAULT_WINDOW_HEIGHT * dpi,
                    focused |-> FALSE, keys |-> {},
                    ball |-> NewBall, left |-> NewPaddle, right |-> NewPaddle])

\* Game::HandleInput: the focus and the keys held down change.
PongHandleInput ==
    /\ pong.made
    /\ \E f \in BOOLEAN, keys \in SUBSET PongKeys :
          PongCall("HandleInput", 0, [pong EXCEPT !.focused = f, !.keys = keys])

\* The first tick of the ball.
CallBallStart ==
    /\ pong.made
    /\ ~pong.ball.hasStarted
    /\ PongCall("Ball::Start", 0,
                [pong EXCEPT !.ball = BallStart(@, pong.width, pong.height)])

CallBallUpdate ==
    /\ pong.made
    /\ pong.ball.hasStarted
    /\ \E dt \in PongTimes :
          PongCall("Ball::Update", dt,
                   [pong EXCEPT !.ball = BallUpdate(@, pong.focused, dt)])

\* Paddle::OnCollision
CallBallChangeDirection ==
    /\ pong.made
    /\ pong.ball.hasStarted
    /\ PongCall("Ball::ChangeDirection", 0,
                [pong EXCEPT !.ball = BallChangeDirection(@)])

\* BorderCollider::OnCollision
CallBallReset ==
    /\ pong.made
    /\ pong.ball.hasStarted
    /\ PongCall("Ball::Reset", 0, [pong EXCEPT !.ball = BallReset(@)])

CallLeftPaddleStart ==
    /\ pong.made
    /\ ~pong.left.hasStarted
    /\ PongCall("LeftPaddle::Start", 0,
                [pong EXCEPT !.left = LeftPaddleStart(@, pong.height)])

CallLeftPaddleUpdate ==
    /\ pong.made
    /\ pong.left.hasStarted
    /\ \E dt \in PongTimes :
          PongCall("LeftPaddle::Update", dt,
                   [pong EXCEPT !.left =
                       PaddleUpdate(@, pong.height, pong.focused,
                                    "SDLK_w" \in pong.keys,
                                    "SDLK_s" \in pong.keys, dt)])

CallRightPaddleStart ==
    /\ pong.made
    /\ ~pong.right.hasStarted
    /\ PongCall("RightPaddle::Start", 0,
                [pong EXCEPT !.right =
                    RightPaddleStart(@, pong.width, pong.height)])

CallRightPaddleUpdate ==
    /\ pong.made
    /\ pong.right.hasStarted
    /\ \E dt \in PongTimes :
          PongCall("RightPaddle::Update", dt,
                   [pong EXCEPT !.right =
                       PaddleUpdate(@, pong.height, pong.focused,
                                    "SDLK_UP" \in pong.keys,
                                    "SDLK_DOWN" \in pong.keys, dt)])

InitPong ==
    /\ InitProgram
    /\ env = [maxNodes |-> 0, maxFrames |-> 0, maxOps |-> MaxPongSteps,
              maxEvents |-> 0, alphabet |-> {}, deltaTimes |-> PongTimes]

NextPong ==
    \/ GameManagerStart
    \/ PongHandleInput
    \/ CallBallStart
    \/ CallBallUpdate
    \/ CallBallChangeDirection
    \/ CallBallReset
    \/ CallLeftPaddleStart
    \/ CallLeftPaddleUpdate
    \/ CallRightPaddleStart
    \/ CallRightPaddleUpdate

SpecPong == InitPong /\ [][NextPong]_vars

\* The ball is inside its range and its directions are units.
BallInRange(B) ==
    /\ 0 <= B.x /\ B.x <= B.maxX * PerPixel
    /\ 0 <= B.y /\ B.y <= B.maxY * PerPixel
    /\ B.xDirection \in {-1, 1}
    /\ B.yDirection \in {-1, 1}

\* The paddle is inside the window.
PaddleInRange(P) == 0 <= P.y /\ P.y <= (pong.height - paddleHeight) * PerPixel

\* An Update hook of Pong is called.
PongUpdateStep ==
    /\ out' # out
    /\ out'.fn \in {"Ball::Update", "LeftPaddle::Update", "RightPaddle::Update"}

UnfocusedUpdate ==
    /\ pong.made
    /\ ~pong.focused
    /\ out.fn = "Ball::Update"

=============================================================================
